---------------------------- MODULE Spec2Model ----------------------------
(***************************************************************************)
(* The Helvar integration (custom_components/helvar).                      *)
(*   group.py       the group light: a light entity that aggregates the    *)
(*                  state of the member devices of a router group and      *)
(*                  sends native group-addressed commands;                 *)
(*   light.py       the device light and the set-up of the light platform; *)
(*   __init__.py    the set-up of a config entry and the send_command      *)
(*                  service;                                               *)
(*   config_flow.py the config flow.                                       *)
(*                                                                         *)
(* Python values are represented as follows.                               *)
(*   - an optional value (x | None) is a sequence: <<>> is None, <<v>> is  *)
(*     the value v;                                                        *)
(*   - a load level (a float percentage with one fractional digit) is the  *)
(*     integer number of tenths of a percent, 0..1000;                     *)
(*   - a level string is the string itself ("78.4", "0");                  *)
(*   - a dict is a function whose DOMAIN is the set of keys.               *)
(***************************************************************************)
EXTENDS Integers, Sequences, FiniteSets, TLC

VARIABLES
    devices,                    \* router.api.devices.devices: address -> Device
    group_devices,              \* group.devices: the member addresses, in order
    color_modes,                \* self._color_modes: address -> configured mode
    fade_time,                  \* self._fade_time (centiseconds)
    attr_brightness,            \* self._attr_brightness  (optional int)
    attr_supported_color_modes, \* self._attr_supported_color_modes (optional set)
    attr_color_mode,            \* self._attr_color_mode  (optional ColorMode)
    attr_color_temp_kelvin,     \* self._attr_color_temp_kelvin (optional int)
    attr_xy_color,              \* self._attr_xy_color (optional pair)
    subscribed,                 \* keys the group light registered a callback for
    pump,                       \* callbacks the frame pump still has to run
    sent,                       \* router API calls issued by the last operation
    last_op,                    \* the operation that ran last
    result,                     \* what the last operation raised or returned
    written,                    \* hass.states: unique_id -> state written last
    lights,                     \* the HelvarLight entities: address -> fields
    light_subscribed,           \* addresses a HelvarLight registered a callback for
    light_pump,                 \* HelvarLight callbacks the frame pump has to run
    router_groups,              \* router.api.groups.groups: group id -> members
    added,                      \* the calls of async_add_entities, in order
    hass_data,                  \* hass.data[DOMAIN]: entry_id -> router | None
    flow,                       \* the fields of the ConfigFlow in progress
    entries                     \* the config entries created so far

vars == <<devices, group_devices, color_modes, fade_time, attr_brightness,
          attr_supported_color_modes, attr_color_mode, attr_color_temp_kelvin,
          attr_xy_color, subscribed, pump, sent, last_op, result, written,
          lights, light_subscribed, light_pump, router_groups, added,
          hass_data, flow, entries>>

-----------------------------------------------------------------------------
(* Program constants *)

COLOR_MODE_NONE == "none"
COLOR_MODE_MIREDS == "mireds"
COLOR_MODE_XY == "xy"
DEFAULT_FADE_TIME == 100

\* homeassistant.components.light.ColorMode members used by the entity
ColorMode_ONOFF == "ColorMode.ONOFF"
ColorMode_BRIGHTNESS == "ColorMode.BRIGHTNESS"
ColorMode_COLOR_TEMP == "ColorMode.COLOR_TEMP"
ColorMode_XY == "ColorMode.XY"

None == <<>>
Some(v) == <<v>>

\* group.group_id of the group the entity represents
group_id == 5

-----------------------------------------------------------------------------
(* Input sets *)

\* Device addresses of the router (those of the tests).
Addrs == {"1.2.3.4", "1.2.3.5", "1.2.3.6"}

\* Capability flags a discovered device can carry.
DeviceKinds ==
    { [is_load |-> TRUE,  is_switch |-> FALSE, is_color |-> FALSE],   \* dimmer
      [is_load |-> TRUE,  is_switch |-> TRUE,  is_color |-> FALSE],   \* relay
      [is_load |-> TRUE,  is_switch |-> FALSE, is_color |-> TRUE],    \* colour
      [is_load |-> FALSE, is_switch |-> FALSE, is_color |-> FALSE] }  \* input

ConfiguredModes == {COLOR_MODE_NONE, COLOR_MODE_MIREDS, COLOR_MODE_XY}

\* Load levels in tenths of a percent: off, 0.1 %, 0.4 %, 39.2 %, 50 %
\* (brightness 0, 0, 1, 100, 128).
Levels == {0, 1, 4, 392, 500}

\* The number of equal steps the notified load levels divide 0..100 % into.
LevelSteps == 2

\* The levels the router notifies in the interleaving specification.
NotifiedLevels == {(1000 * i) \div LevelSteps : i \in 0..LevelSteps}

\* All sequences of distinct elements of S.
RECURSIVE DistinctSeqs(_)
DistinctSeqs(S) ==
    {<<>>} \cup UNION { { <<x>> \o s : s \in DistinctSeqs(S \ {x}) } : x \in S }

-----------------------------------------------------------------------------
(* Numeric helpers *)

\* Python round() of the exact quotient n / d (n >= 0, d > 0): to nearest,
\* ties to the even neighbour.
RoundHalfEven(n, d) ==
    LET q == n \div d
        r == n % d
    IN  IF 2 * r < d THEN q
        ELSE IF 2 * r > d THEN q + 1
        ELSE IF q % 2 = 0 THEN q ELSE q + 1

\* Device.brightness of the router library: round(load_level / 100 * 255).
Brightness(load_level) == RoundHalfEven(load_level * 255, 1000)


-----------------------------------------------------------------------------
(* HelvarGroupLight: state aggregation *)

\* dict.get(key): the value, or None when the key is absent.
DictGet(d, key) == IF key \in DOMAIN d THEN Some(d[key]) ELSE None

\* Mutant of _get_member_devices: the loop ends at the first missing address.
RECURSIVE _get_member_devices_StopAtMissing(_, _)
_get_member_devices_StopAtMissing(addrs, devs) ==
    IF addrs = <<>> THEN <<>>
    ELSE LET device == DictGet(devs, Head(addrs))
         IN  IF device # None
             THEN <<device[1]>> \o _get_member_devices_StopAtMissing(Tail(addrs), devs)
             ELSE <<>>

\* _get_member_devices: the registry devices of the group's addresses, in the
\* group's order; an address the registry does not hold is skipped.
RECURSIVE _get_member_devices(_, _)
_get_member_devices(addrs, devs) ==
    IF addrs = <<>> THEN <<>>
    ELSE LET device == DictGet(devs, Head(addrs))
             rest == _get_member_devices(Tail(addrs), devs)
         IN  IF device # None THEN <<device[1]>> \o rest ELSE rest

\* Mutant of is_on: only the dimmable loads are looked at.
is_on_DimmableOnly(addrs, devs) ==
    LET members == _get_member_devices(addrs, devs)
    IN  \E i \in 1..Len(members) :
            /\ members[i].is_load /\ ~members[i].is_switch
            /\ members[i].load_level > 0

\* is_on: any(device.load_level > 0 for device in self._get_member_devices())
is_on(addrs, devs) ==
    LET members == _get_member_devices(addrs, devs)
    IN  \E i \in 1..Len(members) : members[i].load_level > 0

\* Mutant of MemberColorModes: the mode none is not told from the default.
MemberColorModes_NoneAsDefault(device, modes) ==
    IF device.is_color
    THEN IF DictGet(modes, device.address) = Some(COLOR_MODE_XY)
         THEN {ColorMode_XY} ELSE {ColorMode_COLOR_TEMP}
    ELSE {}

\* The colour branch of the member loop: the colour modes one member adds.
MemberColorModes(device, modes) ==
    IF device.is_color
    THEN LET device_mode == DictGet(modes, device.address)
         IN  IF device_mode = Some(COLOR_MODE_NONE) THEN {}
             ELSE IF device_mode = Some(COLOR_MODE_XY) THEN {ColorMode_XY}
             ELSE {ColorMode_COLOR_TEMP}
    ELSE {}

\* The dimming branch of the member loop: whether the member is a dimmable load.
MemberHasDimming(device) == device.is_load /\ ~device.is_switch

\* Mutant of MemberCounts: members that are off enter the mean too.
MemberCounts_OffToo(device) == device.is_load /\ ~device.is_switch

\* The brightness branch: whether the member enters the running total.
MemberCounts(device) == MemberHasDimming(device) /\ device.load_level > 0

\* The member loop of _update_values, from its local variables to their values
\* after the last member.
RECURSIVE MemberLoop(_, _, _)
MemberLoop(members, modes, acc) ==
    IF members = <<>> THEN acc
    ELSE LET device == Head(members)
             counts == MemberCounts(device)
         IN  MemberLoop(Tail(members), modes,
                 [supported_color_modes |->
                      acc.supported_color_modes \cup MemberColorModes(device, modes),
                  has_dimming |-> acc.has_dimming \/ MemberHasDimming(device),
                  on_brightness_total |->
                      acc.on_brightness_total
                          + (IF counts THEN Brightness(device.load_level) ELSE 0),
                  on_brightness_count |->
                      acc.on_brightness_count + (IF counts THEN 1 ELSE 0)])

\* Mutant of SupportedFallback: BRIGHTNESS is added whenever a member dims.
SupportedFallback_BrightnessToo(supported_color_modes, has_dimming) ==
    LET s1 == IF has_dimming
              THEN supported_color_modes \cup {ColorMode_BRIGHTNESS}
              ELSE supported_color_modes
    IN  IF s1 = {} THEN s1 \cup {ColorMode_ONOFF} ELSE s1

\* The fallbacks after the loop: BRIGHTNESS, then ONOFF, when the set is empty.
SupportedFallback(supported_color_modes, has_dimming) ==
    LET s1 == IF supported_color_modes = {} /\ has_dimming
              THEN supported_color_modes \cup {ColorMode_BRIGHTNESS}
              ELSE supported_color_modes
    IN  IF s1 = {} THEN s1 \cup {ColorMode_ONOFF} ELSE s1

\* Average brightness of on members.
AverageBrightness(total, count) ==
    IF count > 0 THEN RoundHalfEven(total, count) ELSE 0

\* Mutant of ActiveColorMode: COLOR_TEMP is looked for before XY.
ActiveColorMode_TempFirst(supported_color_modes) ==
    IF ColorMode_COLOR_TEMP \in supported_color_modes THEN ColorMode_COLOR_TEMP
    ELSE IF ColorMode_XY \in supported_color_modes THEN ColorMode_XY
    ELSE IF ColorMode_BRIGHTNESS \in supported_color_modes THEN ColorMode_BRIGHTNESS
    ELSE ColorMode_ONOFF

\* Determine active color mode.
ActiveColorMode(supported_color_modes) ==
    IF ColorMode_XY \in supported_color_modes THEN ColorMode_XY
    ELSE IF ColorMode_COLOR_TEMP \in supported_color_modes THEN ColorMode_COLOR_TEMP
    ELSE IF ColorMode_BRIGHTNESS \in supported_color_modes THEN ColorMode_BRIGHTNESS
    ELSE ColorMode_ONOFF

\* _update_values: the entity's aggregate attributes after the call, given the
\* attributes before it. With no resolvable member it returns at once.
_update_values(old, addrs, devs, modes) ==
    LET members == _get_member_devices(addrs, devs)
        acc == MemberLoop(members, modes,
                   [supported_color_modes |-> {}, has_dimming |-> FALSE,
                    on_brightness_total |-> 0, on_brightness_count |-> 0])
        supported == SupportedFallback(acc.supported_color_modes, acc.has_dimming)
    IN  IF members = <<>> THEN old
        ELSE [brightness |-> Some(AverageBrightness(acc.on_brightness_total,
                                                    acc.on_brightness_count)),
              supported_color_modes |-> Some(supported),
              color_mode |-> Some(ActiveColorMode(supported))]

\* The aggregate attributes the entity holds now.
Attrs ==
    [brightness |-> attr_brightness,
     supported_color_modes |-> attr_supported_color_modes,
     color_mode |-> attr_color_mode]

\* The aggregate attributes of a new entity, before __init__ calls
\* _update_values: brightness None, the colour attributes unset.
NewAttrs ==
    [brightness |-> None, supported_color_modes |-> None, color_mode |-> None]

\* Assign the aggregate attributes.
SetAttrs(new) ==
    /\ attr_brightness' = new.brightness
    /\ attr_supported_color_modes' = new.supported_color_modes
    /\ attr_color_mode' = new.color_mode

-----------------------------------------------------------------------------
(* The host: results of operations, entity ids and written states *)

\* The variables of the device lights, and those of the set-up of the
\* integration; no operation of the group light touches them.
LightVars == <<lights, light_subscribed>>
HostVars == <<router_groups, added, hass_data, flow, entries>>

\* What an operation hands to its caller: nothing, an exception, or a value.
NoResult == [raised |-> None, returned |-> None]
Raised(exc) == [raised |-> Some(exc), returned |-> None]
Returned(value) == [raised |-> None, returned |-> Some(value)]

\* Mutant of Surface: the exception of the router API call is caught.
Surface_Swallowed(failure) == NoResult

\* An awaited router API call that no try statement encloses: what it raises,
\* the operation raises to its caller.
Surface(failure) == IF failure = None THEN NoResult ELSE Raised(failure[1])

\* unique_id of a device light and of the group light.
LightId(address) == address \o "-light"
GroupLightId == "helvar-group-" \o ToString(group_id)

\* The state async_write_ha_state writes for the group light: is_on is read
\* from the members, the rest from the attributes.
GroupLightState(attrs, addrs, devs) ==
    [is_on |-> is_on(addrs, devs),
     brightness |-> attrs.brightness,
     supported_color_modes |-> attrs.supported_color_modes,
     color_mode |-> attrs.color_mode]

\* self.async_write_ha_state() of the entity with the given unique_id.
async_write_ha_state(unique_id, state) ==
    written' = [written EXCEPT ![unique_id] = Some(state)]

-----------------------------------------------------------------------------
(* HelvarGroupLight: commands *)

\* Mutant of FormatLevel: the percentage is taken of 256 steps.
FormatLevel_Of256(brightness) ==
    LET tenths == RoundHalfEven(brightness * 1000, 256)
    IN  ToString(tenths \div 10) \o "." \o ToString(tenths % 10)

\* Mutant of FormatLevel: the digits after the first are cut off.
FormatLevel_Truncated(brightness) ==
    LET tenths == (brightness * 1000) \div 255
    IN  ToString(tenths \div 10) \o "." \o ToString(tenths % 10)

\* f"{((brightness / 255) * 100):.1f}": the percentage with one fractional
\* digit. No brightness in 0..255 falls on a rounding tie, so the float
\* result is the rounding of the exact quotient.
FormatLevel(brightness) ==
    LET tenths == RoundHalfEven(brightness * 1000, 255)
    IN  ToString(tenths \div 10) \o "." \o ToString(tenths % 10)

\* color_util.color_temperature_kelvin_to_mired followed by int().
KelvinToMired(kelvin) == 1000000 \div kelvin

\* Python truthiness of an optional int: None and 0 are false.
Truthy(opt) == opt # None /\ opt[1] # 0

\* Mutant of TurnOnBrightness: without a brightness the group goes to 255.
TurnOnBrightness_Always255(kw_brightness, current) ==
    IF kw_brightness # None THEN kw_brightness[1] ELSE 255

\* The brightness async_turn_on works with: the one given, else the current
\* aggregate brightness when it is non-zero, else 255.
TurnOnBrightness(kw_brightness, current) ==
    IF kw_brightness # None THEN kw_brightness[1]
    ELSE IF Truthy(current) THEN current[1] ELSE 255

\* One call of the router API, as the router object receives it.
ApiCall(api, target, level, fade, mireds, xy) ==
    [api |-> api, target |-> target, level |-> level, fade_time |-> fade,
     mireds |-> mireds, xy |-> xy]

\* The router API calls async_turn_on makes, in order.
TurnOnCalls(kw_brightness, kw_kelvin, kw_xy, current, fade) ==
    LET level == FormatLevel(TurnOnBrightness(kw_brightness, current))
    IN  IF kw_kelvin # None
        THEN << ApiCall("groups.set_group_colour_temperature", group_id, level,
                        fade, Some(KelvinToMired(kw_kelvin[1])), None) >>
        ELSE IF kw_xy # None
        THEN << ApiCall("groups.set_group_xy_color", group_id, level, fade,
                        None, kw_xy) >>
        ELSE << ApiCall("groups.set_group_level", group_id, level, fade,
                        None, None) >>

\* Mutant of TurnOffCalls: the command is fanned out, one call per member.
TurnOffCalls_PerMember(fade) ==
    [i \in 1..Len(group_devices) |->
        [api |-> "devices.set_device_brightness", target |-> group_devices[i],
         level |-> "0", fade_time |-> fade, mireds |-> None, xy |-> None]]

\* The router API calls async_turn_off makes, in order.
TurnOffCalls(fade) ==
    << ApiCall("groups.set_group_level", group_id, "0", fade, None, None) >>

\* self._attr_color_temp_kelvin after async_turn_on.
TurnOnColorTemp(kw_kelvin, old) == IF kw_kelvin # None THEN kw_kelvin ELSE old

\* Mutant of TurnOnXy: the XY colour is stored before the colour temperature
\* branch returns.
TurnOnXy_BeforeReturn(kw_kelvin, kw_xy, old) == IF kw_xy # None THEN kw_xy ELSE old

\* self._attr_xy_color after async_turn_on: the colour temperature branch
\* returns before the XY branch.
TurnOnXy(kw_kelvin, kw_xy, old) ==
    IF kw_kelvin = None /\ kw_xy # None THEN kw_xy ELSE old

\* The operation that ran last and the keyword arguments it was called with.
Op(name, kw_brightness, kw_kelvin, kw_xy) ==
    [name |-> name, brightness |-> kw_brightness,
     color_temp_kelvin |-> kw_kelvin, xy_color |-> kw_xy, failure |-> None]

Config == <<group_devices, color_modes, fade_time>>
Aggregate == <<attr_brightness, attr_supported_color_modes, attr_color_mode>>

\* async_turn_on, with what the router API call it awaits raises, if anything:
\* the colour is stored before the call is awaited, and no try statement
\* encloses the call.
HelvarGroupLight_async_turn_on(kw_brightness, kw_kelvin, kw_xy, failure) ==
    /\ last_op.name # "new"
    /\ sent' = TurnOnCalls(kw_brightness, kw_kelvin, kw_xy, attr_brightness,
                           fade_time)
    /\ attr_color_temp_kelvin' = TurnOnColorTemp(kw_kelvin, attr_color_temp_kelvin)
    /\ attr_xy_color' = TurnOnXy(kw_kelvin, kw_xy, attr_xy_color)
    /\ last_op' = [Op("async_turn_on", kw_brightness, kw_kelvin, kw_xy)
                      EXCEPT !.failure = failure]
    /\ result' = Surface(failure)
    /\ UNCHANGED <<devices, Config, Aggregate, subscribed, pump>>
    /\ UNCHANGED <<written, LightVars, light_pump, HostVars>>

\* async_turn_on when the router takes the command.
async_turn_on(kw_brightness, kw_kelvin, kw_xy) ==
    HelvarGroupLight_async_turn_on(kw_brightness, kw_kelvin, kw_xy, None)

\* async_turn_off, with what the router API call it awaits raises, if anything.
HelvarGroupLight_async_turn_off(failure) ==
    /\ last_op.name # "new"
    /\ sent' = TurnOffCalls(fade_time)
    /\ last_op' = [Op("async_turn_off", None, None, None)
                      EXCEPT !.failure = failure]
    /\ result' = Surface(failure)
    /\ UNCHANGED <<devices, Config, Aggregate, attr_color_temp_kelvin,
                   attr_xy_color, subscribed, pump>>
    /\ UNCHANGED <<written, LightVars, light_pump, HostVars>>

\* async_turn_off when the router takes the command.
async_turn_off == HelvarGroupLight_async_turn_off(None)

-----------------------------------------------------------------------------
(* HelvarGroupLight: construction and subscriptions *)

\* __init__: the colour attributes start as None and _update_values runs once.
Construct ==
    /\ last_op.name = "new"
    /\ SetAttrs(_update_values(NewAttrs, group_devices, devices, color_modes))
    /\ attr_color_temp_kelvin' = None
    /\ attr_xy_color' = None
    /\ sent' = <<>>
    /\ last_op' = Op("__init__", None, None, None)
    /\ result' = NoResult
    /\ UNCHANGED <<devices, Config, subscribed, pump>>
    /\ UNCHANGED <<written, LightVars, light_pump, HostVars>>

\* Mutant of Subscriptions: only the group id is subscribed to.
Subscriptions_GroupOnly(addrs) == [devices |-> {}, groups |-> {group_id}]

\* The keys async_added_to_hass registers a callback for: every member address
\* with the device registry, the group id with the group registry.
Subscriptions(addrs) ==
    [devices |-> {addrs[i] : i \in 1..Len(addrs)}, groups |-> {group_id}]

NoSubscriptions == [devices |-> {}, groups |-> {}]

async_added_to_hass ==
    /\ last_op.name # "new"
    /\ subscribed = NoSubscriptions
    /\ subscribed' = Subscriptions(group_devices)
    /\ sent' = <<>>
    /\ last_op' = Op("async_added_to_hass", None, None, None)
    /\ result' = NoResult
    /\ UNCHANGED <<devices, Config, Aggregate, attr_color_temp_kelvin,
                   attr_xy_color, pump>>
    /\ UNCHANGED <<written, LightVars, light_pump, HostVars>>

\* async_member_callback / async_group_callback: _update_values, then the
\* state is written. The frame pump runs the callbacks of one notification in
\* the order it took them up.
RunCallback(name) ==
    /\ pump # <<>>
    /\ Head(pump) = name
    /\ pump' = Tail(pump)
    /\ SetAttrs(_update_values(Attrs, group_devices, devices, color_modes))
    /\ async_write_ha_state(GroupLightId,
           GroupLightState(_update_values(Attrs, group_devices, devices,
                                          color_modes),
                           group_devices, devices))
    /\ sent' = <<>>
    /\ last_op' = Op(name, None, None, None)
    /\ result' = NoResult
    /\ UNCHANGED <<devices, Config, attr_color_temp_kelvin, attr_xy_color,
                   subscribed>>
    /\ UNCHANGED <<LightVars, light_pump, HostVars>>

async_member_callback == RunCallback("async_member_callback")

async_group_callback == RunCallback("async_group_callback")

-----------------------------------------------------------------------------
(* The router library: registry mutation and the subscription bus *)

\* A notification the frame pump took up, and the key it is for.
NotifyOp(name, key) == [name |-> name, key |-> key]

\* The member addresses the registry holds, in the group's order.
PresentMembers(addrs, devs) == SelectSeq(addrs, LAMBDA a : a \in DOMAIN devs)

\* The callbacks the subscription bus holds for the addresses, in their
\* order: the group light's member callback, and the device lights' callback.
MemberCallbacks(addrs) ==
    [i \in 1..Len(SelectSeq(addrs, LAMBDA a : a \in subscribed.devices)) |->
        "async_member_callback"]

LightCallbacks(addrs) == SelectSeq(addrs, LAMBDA a : a \in light_subscribed)

\* A notification for a device: the frame pump sets the device's load level,
\* then runs every callback registered for the address. An address the
\* registry does not hold is ignored.
NotifyDevice(addr, level) ==
    /\ last_op.name # "new"
    /\ pump = <<>>
    /\ light_pump = <<>>
    /\ addr \in DOMAIN devices
    /\ devices' = [devices EXCEPT ![addr].load_level = level]
    /\ pump' = MemberCallbacks(<<addr>>)
    /\ light_pump' = LightCallbacks(<<addr>>)
    /\ sent' = <<>>
    /\ last_op' = NotifyOp("notify_device", addr)
    /\ result' = NoResult
    /\ UNCHANGED <<Config, Aggregate, attr_color_temp_kelvin, attr_xy_color,
                   subscribed>>
    /\ UNCHANGED <<written, LightVars, HostVars>>

\* A notification for the group (a group level or scene recall): the member
\* devices the registry holds take the level, then the callbacks registered
\* for each of them and those registered for the group id run.
NotifyGroup(level) ==
    /\ last_op.name # "new"
    /\ pump = <<>>
    /\ light_pump = <<>>
    /\ devices' = [a \in DOMAIN devices |->
                      IF \E i \in 1..Len(group_devices) : group_devices[i] = a
                      THEN [devices[a] EXCEPT !.load_level = level]
                      ELSE devices[a]]
    /\ pump' = MemberCallbacks(PresentMembers(group_devices, devices))
                   \o (IF group_id \in subscribed.groups
                       THEN <<"async_group_callback">> ELSE <<>>)
    /\ light_pump' = LightCallbacks(PresentMembers(group_devices, devices))
    /\ sent' = <<>>
    /\ last_op' = NotifyOp("notify_group", group_id)
    /\ result' = NoResult
    /\ UNCHANGED <<Config, Aggregate, attr_color_temp_kelvin, attr_xy_color,
                   subscribed>>
    /\ UNCHANGED <<written, LightVars, HostVars>>

\* A device leaves the registry (removal, or a discovery that no longer
\* finds it).
DeviceRemoved(addr) ==
    /\ last_op.name # "new"
    /\ addr \in DOMAIN devices
    /\ devices' = [a \in DOMAIN devices \ {addr} |-> devices[a]]
    /\ sent' = <<>>
    /\ last_op' = Op("device_removed", None, None, None)
    /\ result' = NoResult
    /\ UNCHANGED <<Config, Aggregate, attr_color_temp_kelvin, attr_xy_color,
                   subscribed, pump>>
    /\ UNCHANGED <<written, LightVars, light_pump, HostVars>>

-----------------------------------------------------------------------------
(* Inputs of the specifications *)

\* A Device of the router library.
Device(addr, kind, level) ==
    [address |-> addr, load_level |-> level, is_load |-> kind.is_load,
     is_switch |-> kind.is_switch, is_color |-> kind.is_color]

\* The capabilities and load level one device can have: a device that is no
\* load has no load level to report and stays at 0.
KindLevels(kinds, levels) ==
    { kl \in kinds \X levels : kl[1].is_load \/ kl[2] = 0 }

\* The registries that hold the addresses D, with any capabilities and levels.
Registries(D, kinds, levels) ==
    { [a \in D |-> Device(a, kl[a][1], kl[a][2])] :
          kl \in [D -> KindLevels(kinds, levels)] }

\* The colour mode tables a config entry can hold for a registry: the config
\* flow stores a mode for colour-capable devices only, and none before the
\* device was configured.
ColorModeTables(devs) ==
    UNION { [M -> ConfiguredModes] :
                M \in SUBSET {a \in DOMAIN devs : devs[a].is_color} }

\* The installation of the interleaving specification: a colour device, a
\* dimmer and a relay.
InstalledKind ==
    [a \in Addrs |->
        IF a = "1.2.3.4"
        THEN [is_load |-> TRUE, is_switch |-> FALSE, is_color |-> TRUE]
        ELSE IF a = "1.2.3.5"
        THEN [is_load |-> TRUE, is_switch |-> FALSE, is_color |-> FALSE]
        ELSE [is_load |-> TRUE, is_switch |-> TRUE, is_color |-> FALSE]]

InstalledRegistries(D, levels) ==
    { [a \in D |-> Device(a, InstalledKind[a], l[a])] : l \in [D -> levels] }

\* The groups of the interleaving specification.
InstalledGroups ==
    { <<"1.2.3.4", "1.2.3.5", "1.2.3.6">>, <<"1.2.3.5", "1.2.3.4">> }

\* Keyword arguments of async_turn_on.
KwBrightness == {None, Some(200)}
KwKelvin == {None, Some(2700)}
KwXy == {None, Some(<<3127, 3290>>)}
AllBrightness == {Some(b) : b \in 0..255}
FadeTimes == {DEFAULT_FADE_TIME, 250}

\* The unique ids of the entities the states are written for.
EntityIds == {LightId(a) : a \in Addrs} \cup {GroupLightId}

\* No state was written yet.
NothingWritten == written = [e \in EntityIds |-> None]

\* No device light exists.
NoLights ==
    /\ lights = <<>>
    /\ light_subscribed = {}
    /\ light_pump = <<>>

\* A ConfigFlow as __init__ leaves it.
NewFlow ==
    [router |-> None, user_input |-> None, title |-> "", color_devices |-> <<>>,
     color_modes |-> <<>>, color_device_index |-> 0, cur_step |-> None]

\* Nothing of the integration is set up: no flow was started, no entry
\* created, no platform set up.
HostIdle ==
    /\ router_groups = <<>>
    /\ added = <<>>
    /\ hass_data = <<>>
    /\ flow = NewFlow
    /\ entries = <<>>

-----------------------------------------------------------------------------
(* Spec: the entity among notifications, callbacks and commands *)

Init ==
    /\ \E D \in SUBSET Addrs : devices \in InstalledRegistries(D, NotifiedLevels)
    /\ group_devices \in InstalledGroups
    /\ color_modes \in ColorModeTables(devices)
    /\ fade_time = DEFAULT_FADE_TIME
    /\ attr_brightness =
           _update_values(NewAttrs, group_devices, devices, color_modes).brightness
    /\ attr_supported_color_modes =
           _update_values(NewAttrs, group_devices, devices,
                        color_modes).supported_color_modes
    /\ attr_color_mode =
           _update_values(NewAttrs, group_devices, devices, color_modes).color_mode
    /\ attr_color_temp_kelvin = None
    /\ attr_xy_color = None
    /\ subscribed = NoSubscriptions
    /\ pump = <<>>
    /\ sent = <<>>
    /\ last_op = Op("__init__", None, None, None)
    /\ result = NoResult
    /\ NothingWritten
    /\ NoLights
    /\ HostIdle

TurnOn == \E b \in KwBrightness, k \in KwKelvin, xy \in KwXy : async_turn_on(b, k, xy)

Notified == \E a \in Addrs, l \in NotifiedLevels : NotifyDevice(a, l)

GroupNotified == \E l \in NotifiedLevels : NotifyGroup(l)

Removed == \E a \in Addrs : DeviceRemoved(a)

Next ==
    \/ async_added_to_hass
    \/ async_member_callback
    \/ async_group_callback
    \/ TurnOn
    \/ async_turn_off
    \/ Notified
    \/ GroupNotified
    \/ Removed

Spec == Init /\ [][Next]_vars

-----------------------------------------------------------------------------
(* SpecAggregate: _update_values over every small group *)

InitAggregate ==
    /\ \E D \in SUBSET Addrs : devices \in Registries(D, DeviceKinds, Levels)
    /\ group_devices \in DistinctSeqs(Addrs)
    /\ color_modes \in ColorModeTables(devices)
    /\ fade_time = DEFAULT_FADE_TIME
    /\ attr_brightness = None
    /\ attr_supported_color_modes = None
    /\ attr_color_mode = None
    /\ attr_color_temp_kelvin = None
    /\ attr_xy_color = None
    /\ subscribed = NoSubscriptions
    /\ pump = <<>>
    /\ sent = <<>>
    /\ last_op = Op("new", None, None, None)
    /\ result = NoResult
    /\ NothingWritten
    /\ NoLights
    /\ HostIdle

NextAggregate == Construct

SpecAggregate == InitAggregate /\ [][NextAggregate]_vars

-----------------------------------------------------------------------------
(* SpecLevel: async_turn_on over every brightness *)

InitLevel ==
    /\ devices \in InstalledRegistries(Addrs, {500})
    /\ group_devices = <<"1.2.3.4", "1.2.3.5", "1.2.3.6">>
    /\ color_modes = [a \in {"1.2.3.4"} |-> COLOR_MODE_XY]
    /\ fade_time \in FadeTimes
    /\ attr_brightness =
           _update_values(NewAttrs, group_devices, devices, color_modes).brightness
    /\ attr_supported_color_modes =
           _update_values(NewAttrs, group_devices, devices,
                        color_modes).supported_color_modes
    /\ attr_color_mode =
           _update_values(NewAttrs, group_devices, devices, color_modes).color_mode
    /\ attr_color_temp_kelvin = None
    /\ attr_xy_color = None
    /\ subscribed = NoSubscriptions
    /\ pump = <<>>
    /\ sent = <<>>
    /\ last_op = Op("__init__", None, None, None)
    /\ result = NoResult
    /\ NothingWritten
    /\ NoLights
    /\ HostIdle

TurnOnAny ==
    \E b \in AllBrightness, k \in KwKelvin, xy \in KwXy : async_turn_on(b, k, xy)

NextLevel == TurnOnAny \/ async_turn_off

SpecLevel == InitLevel /\ [][NextLevel]_vars

-----------------------------------------------------------------------------
(* Properties: what the statements below are written in *)

\* The entity exists: __init__ has run.
Constructed == last_op.name # "new"

\* _update_values has just run over at least one resolvable member.
JustAggregated ==
    /\ last_op.name \in {"__init__", "async_member_callback", "async_group_callback"}
    /\ \E i \in 1..Len(group_devices) : group_devices[i] \in DOMAIN devices

\* The member addresses the registry holds.
ResolvableMembers ==
    {group_devices[i] : i \in 1..Len(group_devices)} \cap DOMAIN devices

\* The resolvable members that are on.
OnMembers == {a \in ResolvableMembers : devices[a].load_level > 0}

\* The resolvable members that are dimmable loads.
DimmableMembers ==
    {a \in ResolvableMembers : devices[a].is_load /\ ~devices[a].is_switch}

\* The configured colour mode of a colour-capable resolvable member, "unset"
\* when the table holds none for it.
ConfiguredMode(a) == IF a \in DOMAIN color_modes THEN color_modes[a] ELSE "unset"

ColorMembers(modes) ==
    {a \in ResolvableMembers : devices[a].is_color /\ ConfiguredMode(a) \in modes}

\* The sum of the brightness of the devices at the addresses S.
RECURSIVE BrightnessSum(_)
BrightnessSum(S) ==
    IF S = {} THEN 0
    ELSE LET a == CHOOSE x \in S : TRUE
         IN  Brightness(devices[a].load_level) + BrightnessSum(S \ {a})

\* The rounded mean of the brightness of the devices at S, 0 when S is empty.
MeanBrightness(S) ==
    IF S = {} THEN 0 ELSE RoundHalfEven(BrightnessSum(S), Cardinality(S))

-----------------------------------------------------------------------------
(* C1 *)

\* C1: in every state of a constructed group light, is_on is true if and only
\* if at least one member device that the registry holds has load_level > 0
\* (so it is false when all resolvable members are at 0 and when there are none).
C1_IsOnIffAnyMemberOn ==
    Constructed =>
        (is_on(group_devices, devices) <=>
            \E a \in ResolvableMembers : devices[a].load_level > 0)

\* C1 witness: a group with a missing member, a member that is off and a
\* member that is on reports on.
C1_Witness ==
    /\ Constructed
    /\ is_on(group_devices, devices)
    /\ \E i \in 1..Len(group_devices) : group_devices[i] \notin DOMAIN devices
    /\ \E a \in ResolvableMembers : devices[a].load_level = 0
    /\ \E a \in ResolvableMembers : devices[a].load_level > 0

-----------------------------------------------------------------------------
(* C2 *)

-----------------------------------------------------------------------------
(* C3 *)

\* C3 as stated: group state never diverges from device state. Whenever the
\* frame pump has no callback left to run, the aggregate the group light
\* reports (on/off, brightness, supported colour modes) is the one
\* recomputed from the current state of its member devices.
C3_NeverDiverges ==
    pump = <<>> =>
        /\ is_on(group_devices, devices) = (OnMembers # {})
        /\ attr_brightness =
               _update_values(NewAttrs, group_devices, devices, color_modes).brightness
        /\ attr_supported_color_modes =
               _update_values(NewAttrs, group_devices, devices,
                            color_modes).supported_color_modes

-----------------------------------------------------------------------------
(* C4 *)

\* The member addresses the registry holds, in the group's order.
PresentAddrs == SelectSeq(group_devices, LAMBDA a : a \in DOMAIN devices)

\* C4: _get_member_devices returns exactly the registry devices whose address
\* the group lists, in the group's order, and the aggregation of a group
\* with missing members completes with the values of the group made of its
\* present members alone.
C4_MissingMembersSkipped ==
    Constructed =>
        /\ _get_member_devices(group_devices, devices) =
               [i \in 1..Len(PresentAddrs) |-> devices[PresentAddrs[i]]]
        /\ is_on(group_devices, devices) = is_on(PresentAddrs, devices)
        /\ last_op.name = "__init__" =>
               /\ Attrs = _update_values(NewAttrs, PresentAddrs, devices, color_modes)
               /\ (PresentAddrs # <<>>) = (attr_brightness # None)

\* C4 witness: the group lists a missing address before a present one, and
\* the aggregation went through.
C4_Witness ==
    /\ last_op.name = "__init__"
    /\ Len(group_devices) = 3
    /\ group_devices[1] \notin DOMAIN devices
    /\ group_devices[2] \in DOMAIN devices
    /\ group_devices[3] \in DOMAIN devices
    /\ Len(_get_member_devices(group_devices, devices)) = 2
    /\ attr_brightness = Some(MeanBrightness(OnMembers \cap DimmableMembers))
    /\ OnMembers \cap DimmableMembers # {}

-----------------------------------------------------------------------------
(* C5 *)

\* The supported colour modes as the statement gives them.
StatedSupported ==
    LET xy == ColorMembers({COLOR_MODE_XY}) # {}
        temp == ColorMembers({COLOR_MODE_MIREDS, "unset"}) # {}
        dim == DimmableMembers # {}
    IN  (IF xy THEN {ColorMode_XY} ELSE {})
            \cup (IF temp THEN {ColorMode_COLOR_TEMP} ELSE {})
            \cup (IF dim /\ ~xy /\ ~temp THEN {ColorMode_BRIGHTNESS} ELSE {})
            \cup (IF ~dim /\ ~xy /\ ~temp THEN {ColorMode_ONOFF} ELSE {})

-----------------------------------------------------------------------------
(* C6 *)

\* The place of a colour mode in the order XY > COLOR_TEMP > BRIGHTNESS > ONOFF.
ModeRank(mode) ==
    CASE mode = ColorMode_XY -> 4
      [] mode = ColorMode_COLOR_TEMP -> 3
      [] mode = ColorMode_BRIGHTNESS -> 2
      [] OTHER -> 1

\* C6: whenever the group light holds a supported set, its active colour mode
\* is the member of that set ranked highest in XY > COLOR_TEMP > BRIGHTNESS >
\* ONOFF.
C6_ActiveModeHighestSupported ==
    attr_supported_color_modes # None =>
        /\ attr_color_mode # None
        /\ attr_color_mode[1] \in attr_supported_color_modes[1]
        /\ \A m \in attr_supported_color_modes[1] :
               ModeRank(m) <= ModeRank(attr_color_mode[1])

\* C6 witness: with XY and COLOR_TEMP both supported the active mode is XY.
C6_Witness ==
    /\ attr_supported_color_modes = Some({ColorMode_XY, ColorMode_COLOR_TEMP})
    /\ attr_color_mode = Some(ColorMode_XY)

-----------------------------------------------------------------------------
(* C7 *)

\* The group is one xy-configured colour device and one plain dimmer.
XyDeviceAndDimmer ==
    /\ last_op.name = "__init__"
    /\ Len(group_devices) = 2
    /\ Cardinality(ResolvableMembers) = 2
    /\ \E a, b \in ResolvableMembers :
           /\ devices[a].is_color /\ ConfiguredMode(a) = COLOR_MODE_XY
           /\ devices[b].is_load /\ ~devices[b].is_switch /\ ~devices[b].is_color

\* C7 as stated: such a group advertises {XY, BRIGHTNESS}, with XY active.
C7_XyAndBrightness ==
    XyDeviceAndDimmer =>
        /\ attr_supported_color_modes = Some({ColorMode_XY, ColorMode_BRIGHTNESS})
        /\ attr_color_mode = Some(ColorMode_XY)

\* C7 amended: such a group advertises {XY} alone, with XY active.
C7_XyAlone ==
    XyDeviceAndDimmer =>
        /\ attr_supported_color_modes = Some({ColorMode_XY})
        /\ attr_color_mode = Some(ColorMode_XY)

\* C7 witness: the group of an xy colour device and a plain dimmer, XY active.
C7_Witness ==
    /\ XyDeviceAndDimmer
    /\ attr_supported_color_modes = Some({ColorMode_XY})
    /\ attr_color_mode = Some(ColorMode_XY)

-----------------------------------------------------------------------------
(* C8 *)

\* The group-addressed calls of the router API.
GroupApis ==
    {"groups.set_group_level", "groups.set_group_colour_temperature",
     "groups.set_group_xy_color"}

\* The last operation was a command of the group light.
Commanded == last_op.name \in {"async_turn_on", "async_turn_off"}

\* C8: every async_turn_on and async_turn_off issues exactly one router API
\* call, a group-addressed one carrying the group id, and no per-device call,
\* whatever the number of members.
C8_OneGroupCall ==
    Commanded =>
        /\ Len(sent) = 1
        /\ sent[1].api \in GroupApis
        /\ sent[1].target = group_id

\* C8 witness: a turn-off of a group of three resolvable members sent one
\* set_group_level call.
C8_Witness ==
    /\ last_op.name = "async_turn_off"
    /\ Cardinality(ResolvableMembers) = 3
    /\ Len(sent) = 1
    /\ sent[1].api = "groups.set_group_level"

-----------------------------------------------------------------------------
(* C9 *)

\* The state the group light holds locally.
LocalState ==
    <<attr_brightness, attr_color_temp_kelvin, attr_xy_color,
      attr_supported_color_modes, attr_color_mode>>

\* C9 as stated: a command leaves the locally held state (brightness, colour
\* temperature, XY colour, supported and active colour mode) unchanged.
C9_NoLocalEcho ==
    [][last_op'.name \in {"async_turn_on", "async_turn_off"}
           => LocalState' = LocalState]_vars

\* C9 amended: a command leaves the aggregate brightness and the supported
\* and active colour mode unchanged, and these change only when a
\* notification callback runs; async_turn_on does record the requested
\* colour: given a colour temperature it stores the kelvin value and leaves
\* the XY colour alone, given an XY colour and no colour temperature it
\* stores the XY colour; async_turn_off stores nothing.
C9_EchoOfColourOnly ==
    [][/\ Aggregate' # Aggregate =>
              last_op'.name \in {"async_member_callback", "async_group_callback"}
       /\ last_op'.name = "async_turn_off" =>
              /\ attr_color_temp_kelvin' = attr_color_temp_kelvin
              /\ attr_xy_color' = attr_xy_color
       /\ last_op'.name = "async_turn_on" =>
              /\ attr_color_temp_kelvin' =
                     IF last_op'.color_temp_kelvin # None
                     THEN last_op'.color_temp_kelvin ELSE attr_color_temp_kelvin
              /\ attr_xy_color' =
                     IF last_op'.color_temp_kelvin = None /\ last_op'.xy_color # None
                     THEN last_op'.xy_color ELSE attr_xy_color]_vars

\* C9 witness: a turn-on with a brightness, a colour temperature and an XY
\* colour stored the kelvin value and no XY colour, the aggregate brightness
\* still being the members' one.
C9_Witness ==
    /\ last_op.name = "async_turn_on"
    /\ last_op.brightness = Some(200)
    /\ last_op.color_temp_kelvin = Some(2700)
    /\ last_op.xy_color # None
    /\ attr_color_temp_kelvin = Some(2700)
    /\ attr_xy_color = None
    /\ attr_brightness = Some(128)

-----------------------------------------------------------------------------
(* C10 *)

\* The string of a number of tenths: its integer part, a point, one digit.
TenthsString(t) == ToString(t \div 10) \o "." \o ToString(t % 10)

\* t tenths of a percent is brightness b as a percentage of 255, to the
\* nearest tenth: | b / 255 * 100 - t / 10 | <= 1 / 20.
NearestTenth(b, t) ==
    /\ 2 * (1000 * b - 255 * t) <= 255
    /\ 2 * (255 * t - 1000 * b) <= 255

\* C10: for every brightness b in 0..255 given to async_turn_on, the level
\* sent is b / 255 * 100 rounded to one decimal digit (200 gives "78.4", 255
\* gives "100.0"), and the fade time sent is the configured fade time.
C10_LevelAndFadeTime ==
    (last_op.name = "async_turn_on" /\ last_op.brightness # None) =>
        LET b == last_op.brightness[1]
        IN  /\ Len(sent) = 1
            /\ \E t \in 0..1000 :
                   NearestTenth(b, t) /\ sent[1].level = TenthsString(t)
            /\ b = 200 => sent[1].level = "78.4"
            /\ b = 255 => sent[1].level = "100.0"
            /\ sent[1].fade_time = fade_time

\* C10 witness: brightness 200 with a configured fade time of 250 sent level
\* "78.4" and fade time 250.
C10_Witness ==
    /\ last_op.name = "async_turn_on"
    /\ last_op.brightness = Some(200)
    /\ fade_time = 250
    /\ Len(sent) = 1
    /\ sent[1].level = "78.4"
    /\ sent[1].fade_time = 250

-----------------------------------------------------------------------------
(* SpecRoundTrip: a load level, the brightness derived from it, and the     *)
(* level a turn-on without a brightness sends back                          *)

\* Every load level with one fractional digit, in tenths of a percent.
AllLevels == 0..1000

\* A group of one dimmer, which the registry holds at any load level or does
\* not hold at all.
InitRoundTrip ==
    /\ \E D \in SUBSET {"1.2.3.5"} : devices \in InstalledRegistries(D, AllLevels)
    /\ group_devices = <<"1.2.3.5">>
    /\ color_modes \in ColorModeTables(devices)
    /\ fade_time = DEFAULT_FADE_TIME
    /\ attr_brightness =
           _update_values(NewAttrs, group_devices, devices, color_modes).brightness
    /\ attr_supported_color_modes =
           _update_values(NewAttrs, group_devices, devices,
                        color_modes).supported_color_modes
    /\ attr_color_mode =
           _update_values(NewAttrs, group_devices, devices, color_modes).color_mode
    /\ attr_color_temp_kelvin = None
    /\ attr_xy_color = None
    /\ subscribed = NoSubscriptions
    /\ pump = <<>>
    /\ sent = <<>>
    /\ last_op = Op("__init__", None, None, None)
    /\ result = NoResult
    /\ NothingWritten
    /\ NoLights
    /\ HostIdle

\* async_turn_on without a brightness: a plain turn-on or a colour-only change.
TurnOnCurrent == \E k \in KwKelvin, xy \in KwXy : async_turn_on(None, k, xy)

NextRoundTrip == TurnOnCurrent \/ async_turn_off

SpecRoundTrip == InitRoundTrip /\ [][NextRoundTrip]_vars

-----------------------------------------------------------------------------
(* C11 *)

\* b is L tenths of a percent as a fraction of 255, to the nearest integer:
\* | L / 1000 * 255 - b | <= 1 / 2.
NearestByte(L, b) ==
    /\ 2 * (255 * L - 1000 * b) <= 1000
    /\ 2 * (1000 * b - 255 * L) <= 1000

\* The group's only member, its load level, and the last operation being a
\* turn-on that took the brightness derived from that level.
OnlyMember == devices[group_devices[1]]

TurnedOnAtCurrent ==
    /\ last_op.name = "async_turn_on"
    /\ last_op.brightness = None
    /\ Len(_get_member_devices(group_devices, devices)) = 1
    /\ Truthy(attr_brightness)

\* C11 as stated: for every load level L with one fractional digit, the
\* brightness is round(L / 100 * 255), and the level formula used when
\* sending commands maps that brightness back to L itself.
C11_RoundTripExact ==
    TurnedOnAtCurrent =>
        /\ NearestByte(OnlyMember.load_level, attr_brightness[1])
        /\ sent[1].level = TenthsString(OnlyMember.load_level)

\* C11 amended: for every load level L with one fractional digit, the
\* brightness is round(L / 100 * 255), and the level formula used when
\* sending commands maps that brightness back to a level within 0.2 of L
\* whose brightness is the same; L itself comes back only when it is the
\* level of some brightness.
C11_RoundTripNearest ==
    TurnedOnAtCurrent =>
        /\ NearestByte(OnlyMember.load_level, attr_brightness[1])
        /\ \E t \in AllLevels :
               /\ sent[1].level = TenthsString(t)
               /\ t - OnlyMember.load_level \in -2..2
               /\ NearestByte(t, attr_brightness[1])
               /\ Brightness(t) = attr_brightness[1]

\* C11 witness: 50 % is brightness 128, which goes back as level "50.2".
C11_Witness ==
    /\ TurnedOnAtCurrent
    /\ OnlyMember.load_level = 500
    /\ attr_brightness = Some(128)
    /\ sent[1].level = "50.2"

-----------------------------------------------------------------------------
(* C12 *)

\* The last operation commanded level zero: a turn-off, or a turn-on given
\* brightness 0.
CommandedZero ==
    \/ last_op.name = "async_turn_off"
    \/ last_op.name = "async_turn_on" /\ last_op.brightness = Some(0)

\* C12 as stated: every level command that commands level zero carries the
\* bare level string "0", never "0.0".
C12_OffIsBareZero ==
    CommandedZero => \A i \in 1..Len(sent) : sent[i].level = "0"

-----------------------------------------------------------------------------
(* C13 *)

\* C13: a turn-on without a brightness sends the level of brightness 255,
\* "100.0", when the aggregate brightness is 0 or unset, and the level of the
\* current aggregate brightness when that is non-zero.
C13_DefaultBrightness ==
    (last_op.name = "async_turn_on" /\ last_op.brightness = None) =>
        /\ Len(sent) = 1
        /\ IF attr_brightness = None \/ attr_brightness = Some(0)
           THEN sent[1].level = "100.0"
           ELSE \E t \in AllLevels :
                    /\ NearestTenth(attr_brightness[1], t)
                    /\ sent[1].level = TenthsString(t)

\* C13 witness: a colour-only change of a group at brightness 100 sent the
\* XY colour with level "39.2".
C13_Witness ==
    /\ last_op.name = "async_turn_on"
    /\ last_op.brightness = None
    /\ last_op.color_temp_kelvin = None
    /\ last_op.xy_color # None
    /\ attr_brightness = Some(100)
    /\ Len(sent) = 1
    /\ sent[1].api = "groups.set_group_xy_color"
    /\ sent[1].level = "39.2"

-----------------------------------------------------------------------------
(* HelvarLight (light.py): the light entity of one device *)

\* __init__: the fields of a new device light. The device is the registry's
\* Device object of the light's address, which notifications change in place.
HelvarLight(configured_color_mode, fade) ==
    [configured_color_mode |-> configured_color_mode, fade_time |-> fade,
     attr_color_temp_kelvin |-> None, attr_xy_color |-> None]

\* brightness: self.device.brightness
HelvarLight_brightness(device) == Brightness(device.load_level)

\* Mutant of HelvarLight_is_on: the load level is tested, as the group does.
HelvarLight_is_on_ByLevel(device) == device.load_level > 0

\* is_on: self.brightness > 0
HelvarLight_is_on(device) == HelvarLight_brightness(device) > 0

\* Mutant of HelvarLight_color_mode: the capability of the device is not
\* looked at.
HelvarLight_color_mode_AnyDevice(device, configured_color_mode) ==
    IF configured_color_mode = Some(COLOR_MODE_XY) THEN ColorMode_XY
    ELSE IF configured_color_mode = Some(COLOR_MODE_MIREDS)
    THEN ColorMode_COLOR_TEMP
    ELSE ColorMode_BRIGHTNESS

\* color_mode
HelvarLight_color_mode(device, configured_color_mode) ==
    IF device.is_color /\ configured_color_mode = Some(COLOR_MODE_XY)
    THEN ColorMode_XY
    ELSE IF device.is_color /\ configured_color_mode = Some(COLOR_MODE_MIREDS)
    THEN ColorMode_COLOR_TEMP
    ELSE ColorMode_BRIGHTNESS

\* supported_color_modes
HelvarLight_supported_color_modes(device, configured_color_mode) ==
    IF device.is_color /\ configured_color_mode = Some(COLOR_MODE_XY)
    THEN {ColorMode_XY}
    ELSE IF device.is_color /\ configured_color_mode = Some(COLOR_MODE_MIREDS)
    THEN {ColorMode_COLOR_TEMP}
    ELSE {ColorMode_BRIGHTNESS}

\* The state async_write_ha_state writes for a device light.
HelvarLightState(device, light) ==
    [is_on |-> HelvarLight_is_on(device),
     brightness |-> HelvarLight_brightness(device),
     supported_color_modes |->
         HelvarLight_supported_color_modes(device, light.configured_color_mode),
     color_mode |-> HelvarLight_color_mode(device, light.configured_color_mode)]

\* One call of the router's device API, as the router object receives it.
DeviceCall(api, target, brightness, level, fade, mireds, xy) ==
    [api |-> api, target |-> target, brightness |-> brightness, level |-> level,
     fade_time |-> fade, mireds |-> mireds, xy |-> xy]

\* Mutant of LightTurnOnBrightness: the default is taken for a percentage.
LightTurnOnBrightness_Percent(kw_brightness) ==
    IF kw_brightness # None THEN kw_brightness[1] ELSE 100

\* kwargs.get(ATTR_BRIGHTNESS, 255)
LightTurnOnBrightness(kw_brightness) ==
    IF kw_brightness # None THEN kw_brightness[1] ELSE 255

\* Mutant of LightTurnOnCalls: the XY colour is looked at first.
LightTurnOnCalls_XyFirst(address, kw_brightness, kw_kelvin, kw_xy, fade) ==
    LET brightness == LightTurnOnBrightness(kw_brightness)
        level == FormatLevel(brightness)
    IN  IF kw_xy # None
        THEN << DeviceCall("devices.set_device_xy_color", address, None,
                           Some(level), fade, None, kw_xy) >>
        ELSE IF kw_kelvin # None
        THEN << DeviceCall("devices.set_device_colour_temperature", address,
                           None, Some(level), fade,
                           Some(KelvinToMired(kw_kelvin[1])), None) >>
        ELSE << DeviceCall("devices.set_device_brightness", address,
                           Some(brightness), None, fade, None, None) >>

\* The router API calls HelvarLight.async_turn_on makes, in order.
LightTurnOnCalls(address, kw_brightness, kw_kelvin, kw_xy, fade) ==
    LET brightness == LightTurnOnBrightness(kw_brightness)
        level == FormatLevel(brightness)
    IN  IF kw_kelvin # None
        THEN << DeviceCall("devices.set_device_colour_temperature", address,
                           None, Some(level), fade,
                           Some(KelvinToMired(kw_kelvin[1])), None) >>
        ELSE IF kw_xy # None
        THEN << DeviceCall("devices.set_device_xy_color", address, None,
                           Some(level), fade, None, kw_xy) >>
        ELSE << DeviceCall("devices.set_device_brightness", address,
                           Some(brightness), None, fade, None, None) >>

\* The router API calls HelvarLight.async_turn_off makes, in order.
LightTurnOffCalls(address, fade) ==
    << DeviceCall("devices.set_device_brightness", address, Some(0), None, fade,
                  None, None) >>

\* An operation of a device light, the keyword arguments it was called with
\* and the exception the router API call it awaited raised, if any.
LightOp(name, address, kw_brightness, kw_kelvin, kw_xy, failure) ==
    [name |-> name, address |-> address, brightness |-> kw_brightness,
     color_temp_kelvin |-> kw_kelvin, xy_color |-> kw_xy, failure |-> failure]

\* The variables of the group light.
GroupLightVars ==
    <<Config, Aggregate, attr_color_temp_kelvin, attr_xy_color, subscribed, pump>>

\* HelvarLight.async_turn_on: the colour is stored before the call is awaited.
HelvarLight_async_turn_on(address, kw_brightness, kw_kelvin, kw_xy, failure) ==
    /\ address \in DOMAIN lights
    /\ sent' = LightTurnOnCalls(address, kw_brightness, kw_kelvin, kw_xy,
                                lights[address].fade_time)
    /\ lights' =
           [lights EXCEPT
               ![address].attr_color_temp_kelvin =
                   TurnOnColorTemp(kw_kelvin, @),
               ![address].attr_xy_color = TurnOnXy(kw_kelvin, kw_xy, @)]
    /\ last_op' = LightOp("HelvarLight.async_turn_on", address, kw_brightness,
                          kw_kelvin, kw_xy, failure)
    /\ result' = Surface(failure)
    /\ UNCHANGED <<devices, GroupLightVars, written, light_subscribed,
                   light_pump, HostVars>>

\* HelvarLight.async_turn_off
HelvarLight_async_turn_off(address, failure) ==
    /\ address \in DOMAIN lights
    /\ sent' = LightTurnOffCalls(address, lights[address].fade_time)
    /\ last_op' = LightOp("HelvarLight.async_turn_off", address, None, None,
                          None, failure)
    /\ result' = Surface(failure)
    /\ UNCHANGED <<devices, GroupLightVars, written, LightVars, light_pump,
                   HostVars>>

\* HelvarLight.async_added_to_hass: the callback is registered for the
\* device's address.
HelvarLight_async_added_to_hass(address) ==
    /\ address \in DOMAIN lights
    /\ address \notin light_subscribed
    /\ light_subscribed' = light_subscribed \cup {address}
    /\ sent' = <<>>
    /\ last_op' = LightOp("HelvarLight.async_added_to_hass", address, None,
                          None, None, None)
    /\ result' = NoResult
    /\ UNCHANGED <<devices, GroupLightVars, written, lights, light_pump,
                   HostVars>>

\* async_router_callback_device: the state is written.
async_router_callback_device ==
    /\ light_pump # <<>>
    /\ light_pump' = Tail(light_pump)
    /\ async_write_ha_state(LightId(Head(light_pump)),
           HelvarLightState(devices[Head(light_pump)], lights[Head(light_pump)]))
    /\ sent' = <<>>
    /\ last_op' = LightOp("async_router_callback_device", Head(light_pump),
                          None, None, None, None)
    /\ result' = NoResult
    /\ UNCHANGED <<devices, GroupLightVars, LightVars, HostVars>>

-----------------------------------------------------------------------------
(* SpecLightState: one device light among the updates of its device *)

\* A group light that has no member and is left alone.
IdleGroupLight ==
    /\ group_devices = <<>>
    /\ color_modes = <<>>
    /\ fade_time = DEFAULT_FADE_TIME
    /\ attr_brightness = None
    /\ attr_supported_color_modes = None
    /\ attr_color_mode = None
    /\ attr_color_temp_kelvin = None
    /\ attr_xy_color = None
    /\ subscribed = NoSubscriptions
    /\ pump = <<>>

\* The light of the dimmer, at any load level, not yet added.
InitLightState ==
    /\ devices \in InstalledRegistries({"1.2.3.5"}, AllLevels)
    /\ lights = [a \in DOMAIN devices |-> HelvarLight(None, DEFAULT_FADE_TIME)]
    /\ light_subscribed = {}
    /\ light_pump = <<>>
    /\ IdleGroupLight
    /\ sent = <<>>
    /\ last_op = LightOp("HelvarLight.__init__", "1.2.3.5", None, None, None, None)
    /\ result = NoResult
    /\ NothingWritten
    /\ HostIdle

LightAdded == \E a \in Addrs : HelvarLight_async_added_to_hass(a)

\* The levels the updates bring: the level of every brightness 0..255, and
\* the levels of the other specifications (0.1 % is on, at brightness 0).
UpdateLevels ==
    {RoundHalfEven(b * 1000, 255) : b \in 0..255} \cup Levels \cup NotifiedLevels

LevelNotified == \E a \in Addrs, l \in UpdateLevels : NotifyDevice(a, l)

NextLightState == LightAdded \/ LevelNotified \/ async_router_callback_device

SpecLightState == InitLightState /\ [][NextLightState]_vars

-----------------------------------------------------------------------------
(* SpecLight: the commands and colour modes of one device light *)

\* The devices that get a light: the loads.
LightKinds == {kind \in DeviceKinds : kind.is_load}

\* The colour mode a light can be constructed with: unset, or a stored mode.
ConfiguredColorModes == {None} \cup {Some(mode) : mode \in ConfiguredModes}

\* The exceptions a router API call can raise.
SendFailures == {Some("ConnectionLostError")}

InitLight ==
    /\ \E a \in Addrs : devices \in Registries({a}, LightKinds, NotifiedLevels)
    /\ lights \in [DOMAIN devices ->
                      {HelvarLight(mode, fade) :
                           mode \in ConfiguredColorModes, fade \in FadeTimes}]
    /\ light_subscribed = {}
    /\ light_pump = <<>>
    /\ IdleGroupLight
    /\ sent = <<>>
    /\ last_op = LightOp("HelvarLight.__init__", "", None, None, None, None)
    /\ result = NoResult
    /\ NothingWritten
    /\ HostIdle

\* Keyword arguments of HelvarLight.async_turn_on.
KwLightBrightness == {None, Some(0), Some(200)}

LightTurnOn ==
    \E a \in Addrs, b \in KwLightBrightness, k \in KwKelvin, xy \in KwXy,
       failure \in {None} \cup SendFailures :
        HelvarLight_async_turn_on(a, b, k, xy, failure)

LightTurnOff ==
    \E a \in Addrs, failure \in {None} \cup SendFailures :
        HelvarLight_async_turn_off(a, failure)

NextLight == LightTurnOn \/ LightTurnOff

SpecLight == InitLight /\ [][NextLight]_vars

-----------------------------------------------------------------------------
(* C14 *)

\* C14: a device light holds no brightness of its own. In every state, after
\* any updates of its device, its brightness is the device's, the rounding
\* of the device's load level to 0..255, and is_on is true if and only if
\* that brightness is greater than 0; once the updates' callbacks have run,
\* the state it wrote last is that brightness and that is_on.
C14_LightFollowsDevice ==
    \A a \in DOMAIN lights :
        LET b == HelvarLight_brightness(devices[a])
        IN  /\ b \in 0..255
            /\ NearestByte(devices[a].load_level, b)
            /\ HelvarLight_is_on(devices[a]) <=> b > 0
            /\ (light_pump = <<>> /\ written[LightId(a)] # None) =>
                   /\ written[LightId(a)][1].brightness = b
                   /\ written[LightId(a)][1].is_on = (b > 0)

\* C14 witness: after an update to 0.1 %, which is brightness 0, the light
\* wrote brightness 0 and off.
C14_Witness ==
    /\ last_op.name = "async_router_callback_device"
    /\ devices["1.2.3.5"].load_level = 1
    /\ written[LightId("1.2.3.5")] # None
    /\ written[LightId("1.2.3.5")][1].brightness = 0
    /\ written[LightId("1.2.3.5")][1].is_on = FALSE

-----------------------------------------------------------------------------
(* C15 *)

\* C15: HelvarLight.async_turn_on with no colour argument makes the one call
\* set_device_brightness(device address, b, fade_time = configured fade
\* time), b being the brightness given, or 255 when none is given;
\* async_turn_off makes the same call with brightness 0.
C15_SetDeviceBrightness ==
    /\ (/\ last_op.name = "HelvarLight.async_turn_on"
        /\ last_op.color_temp_kelvin = None
        /\ last_op.xy_color = None) =>
           /\ Len(sent) = 1
           /\ sent[1].api = "devices.set_device_brightness"
           /\ sent[1].target = last_op.address
           /\ sent[1].brightness =
                  IF last_op.brightness = None THEN Some(255) ELSE last_op.brightness
           /\ sent[1].fade_time = lights[last_op.address].fade_time
    /\ last_op.name = "HelvarLight.async_turn_off" =>
           /\ Len(sent) = 1
           /\ sent[1].api = "devices.set_device_brightness"
           /\ sent[1].target = last_op.address
           /\ sent[1].brightness = Some(0)
           /\ sent[1].fade_time = lights[last_op.address].fade_time

\* C15 witness: a turn-on without arguments of a light with fade time 250
\* called set_device_brightness with 255 and fade time 250.
C15_Witness ==
    /\ last_op.name = "HelvarLight.async_turn_on"
    /\ last_op.brightness = None
    /\ last_op.color_temp_kelvin = None
    /\ last_op.xy_color = None
    /\ lights[last_op.address].fade_time = 250
    /\ sent[1].api = "devices.set_device_brightness"
    /\ sent[1].brightness = Some(255)
    /\ sent[1].fade_time = 250

-----------------------------------------------------------------------------
(* C16 *)

\* C16: the active colour mode of a device light is XY if and only if the
\* device is colour-capable and configured xy, COLOR_TEMP if and only if it
\* is colour-capable and configured mireds, and BRIGHTNESS otherwise; the
\* supported colour modes are exactly the set of the active colour mode.
C16_ConfiguredModeSelects ==
    \A a \in DOMAIN lights :
        LET device == devices[a]
            mode == lights[a].configured_color_mode
            active == HelvarLight_color_mode(device, mode)
            xy == device.is_color /\ mode = Some(COLOR_MODE_XY)
            temp == device.is_color /\ mode = Some(COLOR_MODE_MIREDS)
        IN  /\ active = ColorMode_XY <=> xy
            /\ active = ColorMode_COLOR_TEMP <=> temp
            /\ active = ColorMode_BRIGHTNESS <=> (~xy /\ ~temp)
            /\ HelvarLight_supported_color_modes(device, mode) = {active}

\* C16 witness: a dimmer without colour control that is configured xy has
\* BRIGHTNESS alone, and was turned on.
C16_Witness ==
    /\ last_op.name = "HelvarLight.async_turn_on"
    /\ ~devices[last_op.address].is_color
    /\ lights[last_op.address].configured_color_mode = Some(COLOR_MODE_XY)
    /\ HelvarLight_color_mode(devices[last_op.address], Some(COLOR_MODE_XY))
           = ColorMode_BRIGHTNESS
    /\ HelvarLight_supported_color_modes(devices[last_op.address],
                                         Some(COLOR_MODE_XY))
           = {ColorMode_BRIGHTNESS}

-----------------------------------------------------------------------------
(* SpecBus: the device lights and the group light among notifications *)

\* The groups of this specification: with a member the registry does not
\* hold, with both devices, and with one device only.
BusGroups == InstalledGroups \cup { <<"1.2.3.5">> }

\* Two devices, a light for each, and the group light; nothing is added yet.
InitBus ==
    /\ devices \in InstalledRegistries({"1.2.3.4", "1.2.3.5"}, NotifiedLevels)
    /\ group_devices \in BusGroups
    /\ color_modes = [a \in {"1.2.3.4"} |-> COLOR_MODE_XY]
    /\ fade_time = DEFAULT_FADE_TIME
    /\ attr_brightness =
           _update_values(NewAttrs, group_devices, devices, color_modes).brightness
    /\ attr_supported_color_modes =
           _update_values(NewAttrs, group_devices, devices,
                        color_modes).supported_color_modes
    /\ attr_color_mode =
           _update_values(NewAttrs, group_devices, devices, color_modes).color_mode
    /\ attr_color_temp_kelvin = None
    /\ attr_xy_color = None
    /\ subscribed = NoSubscriptions
    /\ pump = <<>>
    /\ lights = [a \in DOMAIN devices |->
                    HelvarLight(Some(COLOR_MODE_XY), DEFAULT_FADE_TIME)]
    /\ light_subscribed = {}
    /\ light_pump = <<>>
    /\ sent = <<>>
    /\ last_op = Op("__init__", None, None, None)
    /\ result = NoResult
    /\ NothingWritten
    /\ HostIdle

NextBus ==
    \/ async_added_to_hass
    \/ LightAdded
    \/ Notified
    \/ GroupNotified
    \/ async_member_callback
    \/ async_group_callback
    \/ async_router_callback_device

SpecBus == InitBus /\ [][NextBus]_vars

-----------------------------------------------------------------------------
(* C17 *)

\* The elements of a sequence.
Range(seq) == {seq[i] : i \in 1..Len(seq)}

\* The group light was added: async_added_to_hass has run.
GroupLightAdded == last_op.name # "new" /\ subscribed # NoSubscriptions

\* The state of the group light as its members have it now.
CurrentGroupLightState ==
    GroupLightState(_update_values(NewAttrs, group_devices, devices, color_modes),
                    group_devices, devices)

\* No callback is left to run.
Drained == pump = <<>> /\ light_pump = <<>>

-----------------------------------------------------------------------------
(* The light platform: async_setup_entry of light.py *)

\* The order in which the router lists its devices and its groups.
AddrOrder == <<"1.2.3.4", "1.2.3.5", "1.2.3.6">>
GroupOrder == <<2, group_id>>

\* router.api.devices.get_light_devices(): the loads, in registry order.
get_light_devices(devs) ==
    SelectSeq(AddrOrder, LAMBDA a : a \in DOMAIN devs /\ devs[a].is_load)

\* router.api.groups.groups.values(), as the ids in registry order.
GroupIds(groups) == SelectSeq(GroupOrder, LAMBDA g : g \in DOMAIN groups)

\* unique_id of the group light of any group.
GroupUniqueId(gid) == "helvar-group-" \o ToString(gid)

\* The member loop of light.py's HelvarGroupLight._update_values: one
\* configured colour mode for all members, and every load dims.
RECURSIVE PlatformMemberLoop(_, _, _)
PlatformMemberLoop(members, configured_color_mode, acc) ==
    IF members = <<>> THEN acc
    ELSE LET device == Head(members)
             counts == device.is_load /\ device.load_level > 0
             modes == IF ~device.is_color THEN {}
                      ELSE IF configured_color_mode = Some(COLOR_MODE_XY)
                      THEN {ColorMode_XY}
                      ELSE IF configured_color_mode = Some(COLOR_MODE_MIREDS)
                      THEN {ColorMode_COLOR_TEMP}
                      ELSE {}
         IN  PlatformMemberLoop(Tail(members), configured_color_mode,
                 [supported_color_modes |-> acc.supported_color_modes \cup modes,
                  has_dimming |-> acc.has_dimming \/ device.is_load,
                  on_brightness_total |->
                      acc.on_brightness_total
                          + (IF counts THEN Brightness(device.load_level) ELSE 0),
                  on_brightness_count |->
                      acc.on_brightness_count + (IF counts THEN 1 ELSE 0)])

\* _update_values of light.py's HelvarGroupLight.
Platform_update_values(old, addrs, devs, configured_color_mode) ==
    LET members == _get_member_devices(addrs, devs)
        acc == PlatformMemberLoop(members, configured_color_mode,
                   [supported_color_modes |-> {}, has_dimming |-> FALSE,
                    on_brightness_total |-> 0, on_brightness_count |-> 0])
        supported == SupportedFallback(acc.supported_color_modes, acc.has_dimming)
    IN  IF members = <<>> THEN old
        ELSE [brightness |-> Some(AverageBrightness(acc.on_brightness_total,
                                                    acc.on_brightness_count)),
              supported_color_modes |-> Some(supported),
              color_mode |-> Some(ActiveColorMode(supported))]

\* The HelvarLight entities the platform creates, in order.
PlatformDevices(devs) ==
    LET addrs == get_light_devices(devs)
    IN  [i \in 1..Len(addrs) |->
            [cls |-> "HelvarLight", unique_id |-> LightId(addrs[i])]]

\* The HelvarGroupLight entities the platform creates, in order, each with the
\* aggregate its __init__ computes.
PlatformGroups(groups, devs, configured_color_mode) ==
    LET ids == GroupIds(groups)
    IN  [i \in 1..Len(ids) |->
            [cls |-> "HelvarGroupLight", unique_id |-> GroupUniqueId(ids[i]),
             attrs |-> Platform_update_values(NewAttrs, groups[ids[i]], devs,
                                              configured_color_mode)]]

\* async_setup_entry of the light platform: the lists of both kinds of
\* entities are built and handed to async_add_entities.
light_async_setup_entry(configured_color_mode, fade) ==
    /\ added = <<>>
    /\ lights' = [a \in Range(get_light_devices(devices)) |->
                      HelvarLight(configured_color_mode, fade)]
    /\ added' = Append(added,
                       PlatformDevices(devices)
                           \o PlatformGroups(router_groups, devices,
                                             configured_color_mode))
    /\ sent' = <<>>
    /\ last_op' = LightOp("light.async_setup_entry", "", None, None, None, None)
    /\ result' = NoResult
    /\ UNCHANGED <<devices, GroupLightVars, light_subscribed, light_pump, written,
                   router_groups, hass_data, flow, entries>>

-----------------------------------------------------------------------------
(* SpecPlatform: the platform set up for any small installation *)

\* The member lists a router group can have.
PlatformGroupMembers == InstalledGroups \cup {<<>>, <<"1.2.3.5">>}

InitPlatform ==
    /\ \E D \in SUBSET {"1.2.3.4", "1.2.3.5"} :
           devices \in Registries(D, DeviceKinds, {0, 500})
    /\ \E G \in SUBSET Range(GroupOrder) :
           router_groups \in [G -> PlatformGroupMembers]
    /\ NoLights
    /\ IdleGroupLight
    /\ sent = <<>>
    /\ last_op = LightOp("new", "", None, None, None, None)
    /\ result = NoResult
    /\ NothingWritten
    /\ added = <<>>
    /\ hass_data = <<>>
    /\ flow = NewFlow
    /\ entries = <<>>

PlatformSetup ==
    \E mode \in ConfiguredColorModes, fade \in FadeTimes :
        light_async_setup_entry(mode, fade)

NextPlatform == PlatformSetup \/ LightAdded

SpecPlatform == InitPlatform /\ [][NextPlatform]_vars

-----------------------------------------------------------------------------
(* C18 *)

\* The entities of one call of async_add_entities are all of one class.
AllOfClass(entities, cls) ==
    \A i \in 1..Len(entities) : entities[i].cls = cls

\* C18: once the light platform is set up, async_add_entities was called
\* exactly twice: first with the device lights, one per light device, then
\* with the group lights, one per router group (an empty list for none).
C18_AddEntitiesTwice ==
    added # <<>> =>
        /\ Len(added) = 2
        /\ added[1] = PlatformDevices(devices)
        /\ AllOfClass(added[2], "HelvarGroupLight")
        /\ Len(added[2]) = Len(GroupIds(router_groups))

-----------------------------------------------------------------------------
(* The send_command service of __init__.py *)

\* str.startswith and str.endswith, on a string given as its characters.
StartsWith(command, ch) == command # <<>> /\ Head(command) = ch
EndsWith(command, ch) == command # <<>> /\ command[Len(command)] = ch

\* Mutant of NormalizeCommand: the terminator is appended in any case.
NormalizeCommand_Appending(command) ==
    (IF ~StartsWith(command, ">") THEN <<">">> \o command ELSE command) \o <<"#">>

\* Normalize: ensure the command has the required > prefix and # terminator.
NormalizeCommand(command) ==
    LET prefixed == IF ~StartsWith(command, ">") THEN <<">">> \o command
                    ELSE command
    IN  IF ~EndsWith(prefixed, "#") THEN prefixed \o <<"#">> ELSE prefixed

\* A HelvarRouter as the service sees it: its host, and its api or None.
Router(host, api) == Some([host |-> host, api |-> api])

\* hass.data[DOMAIN].values() that are not None and have an api, in order.
ConnectedRouters(data) ==
    LET values == [i \in 1..Len(data) |-> data[i][2]]
        kept == SelectSeq(values, LAMBDA r : r # None /\ r[1].api # None)
    IN  [i \in 1..Len(kept) |-> kept[i][1]]

\* if target_host: a host was given and is not the empty string.
HostGiven(target_host) == target_host # None /\ target_host[1] # ""

\* Mutant of TargetRouters: the host of the call is not looked at.
TargetRouters_AnyHost(data, target_host) == ConnectedRouters(data)

\* The routers the command goes to.
TargetRouters(data, target_host) ==
    IF HostGiven(target_host)
    THEN SelectSeq(ConnectedRouters(data), LAMBDA r : r.host = target_host[1])
    ELSE ConnectedRouters(data)

\* The index of the first send_string that raises, 0 when none does.
FirstFailing(outcomes) ==
    IF \A i \in 1..Len(outcomes) : outcomes[i] = None THEN 0
    ELSE CHOOSE i \in 1..Len(outcomes) :
             /\ outcomes[i] # None
             /\ \A j \in 1..(i - 1) : outcomes[j] = None

\* The send_string calls of the loop over the routers: the loop ends at the
\* first call that raises.
SendCalls(routers, command, outcomes) ==
    LET last == IF FirstFailing(outcomes) = 0 THEN Len(routers)
                ELSE FirstFailing(outcomes)
    IN  [i \in 1..last |->
            [api |-> "api.send_string", target |-> routers[i].host,
             command |-> command]]

\* What the loop raises: what its first failing send_string raised.
LoopFailure(outcomes) ==
    IF FirstFailing(outcomes) = 0 THEN None ELSE outcomes[FirstFailing(outcomes)]

\* handle_send_command: outcomes[i] is what send_string of the i-th target
\* router raises, if anything.
handle_send_command(command, target_host, outcomes) ==
    /\ Len(outcomes) = Len(TargetRouters(hass_data, target_host))
    /\ sent' = SendCalls(TargetRouters(hass_data, target_host),
                         NormalizeCommand(command), outcomes)
    /\ last_op' = [name |-> "handle_send_command", command |-> command,
                   host |-> target_host, failure |-> LoopFailure(outcomes)]
    /\ result' = Surface(LoopFailure(outcomes))
    /\ UNCHANGED <<devices, GroupLightVars, written, LightVars, light_pump,
                   HostVars>>

-----------------------------------------------------------------------------
(* SpecSend: the commands of both entities and of the service, over a
   router that takes the command or fails to *)

\* Commands a service call can carry, as their characters.
Commands ==
    { <<>>, <<"V">>, <<">", "V">>, <<"V", "#">>, <<">", "V", "#">> }

\* Hosts of routers and of service calls.
Hosts == {"10.0.0.1", "10.0.0.2"}
TargetHosts == {None, Some(""), Some("10.0.0.1"), Some("10.0.0.9")}

\* hass.data[DOMAIN] as the config entries in the order they were set up,
\* each with its router: None after a failed set-up, with or without an api.
HassDatas ==
    LET routers == {None} \cup {Router(h, api) : h \in Hosts,
                                                api \in {None, Some("api")}}
    IN  {<<>>} \cup { << <<"entry1", r>> >> : r \in routers }
               \cup { << <<"entry1", r1>>, <<"entry2", r2>> >> :
                          r1 \in routers, r2 \in routers }

\* What each of n awaited calls can do: return, or raise.
Outcomes(n) == [1..n -> {None} \cup SendFailures]

InitSend ==
    /\ devices \in InstalledRegistries(Addrs, {500})
    /\ group_devices = <<"1.2.3.4", "1.2.3.5", "1.2.3.6">>
    /\ color_modes = [a \in {"1.2.3.4"} |-> COLOR_MODE_XY]
    /\ fade_time = DEFAULT_FADE_TIME
    /\ attr_brightness =
           _update_values(NewAttrs, group_devices, devices, color_modes).brightness
    /\ attr_supported_color_modes =
           _update_values(NewAttrs, group_devices, devices,
                        color_modes).supported_color_modes
    /\ attr_color_mode =
           _update_values(NewAttrs, group_devices, devices, color_modes).color_mode
    /\ attr_color_temp_kelvin = None
    /\ attr_xy_color = None
    /\ subscribed = NoSubscriptions
    /\ pump = <<>>
    /\ sent = <<>>
    /\ last_op = Op("__init__", None, None, None)
    /\ result = NoResult
    /\ NothingWritten
    /\ lights = [a \in {"1.2.3.4"} |->
                    HelvarLight(Some(COLOR_MODE_XY), DEFAULT_FADE_TIME)]
    /\ light_subscribed = {}
    /\ light_pump = <<>>
    /\ router_groups = <<>>
    /\ added = <<>>
    /\ hass_data \in HassDatas
    /\ flow = NewFlow
    /\ entries = <<>>

GroupTurnOn ==
    \E b \in KwBrightness, k \in KwKelvin, xy \in KwXy,
       failure \in {None} \cup SendFailures :
        HelvarGroupLight_async_turn_on(b, k, xy, failure)

GroupTurnOff ==
    \E failure \in {None} \cup SendFailures :
        HelvarGroupLight_async_turn_off(failure)

SendCommand ==
    \E command \in Commands, target_host \in TargetHosts, n \in 0..2 :
        \E outcomes \in Outcomes(n) :
            handle_send_command(command, target_host, outcomes)

NextSend ==
    \/ GroupTurnOn
    \/ GroupTurnOff
    \/ LightTurnOn
    \/ LightTurnOff
    \/ SendCommand

SpecSend == InitSend /\ [][NextSend]_vars

-----------------------------------------------------------------------------
(* C19 *)

\* The operations that send a command to the router.
SendingOps ==
    {"async_turn_on", "async_turn_off", "HelvarLight.async_turn_on",
     "HelvarLight.async_turn_off", "handle_send_command"}

\* The last operation sent a command and the router API call failed.
SendFailed == last_op.name \in SendingOps /\ last_op.failure # None

\* C19: no command send failure is swallowed: when the router API call of
\* async_turn_on or async_turn_off of either entity, or of the send_command
\* service, fails, the operation raises that failure to its caller and
\* returns nothing; the failing call is the last one the operation made.
C19_SendFailureSurfaces ==
    SendFailed =>
        /\ result.raised = last_op.failure
        /\ result.returned = None
        /\ sent # <<>>

\* A send_command call to two routers whose first send_string failed: the
\* second router was not sent to, and the caller got the exception.
C19_Witness ==
    /\ SendFailed
    /\ last_op.name = "handle_send_command"
    /\ Len(TargetRouters(hass_data, last_op.host)) = 2
    /\ Len(sent) = 1
    /\ result = Raised("ConnectionLostError")

-----------------------------------------------------------------------------
(* The config flow of config_flow.py and the set-up of an entry *)

DEFAULT_PORT == 50000

\* The modes the colour mode form offers.
COLOR_MODE_OPTIONS == {COLOR_MODE_MIREDS, COLOR_MODE_XY}

\* The exceptions that are a ConnectionError: the class and its subclasses.
ConnectionErrors == {"ConnectionError", "ConnectionRefusedError"}

\* What router.connect() can do: return, or raise one of these.
ConnectOutcomes ==
    {None} \cup {Some(exc) : exc \in ConnectionErrors \cup {"TimeoutError"}}

\* Mutant of ValidateRaises: the ConnectionError is caught and dropped.
ValidateRaises_Dropped(connect) ==
    IF connect # None /\ connect[1] \in ConnectionErrors THEN None ELSE connect

\* validate_input: what it raises, given what router.connect() raised. A
\* ConnectionError becomes CannotConnect, anything else passes through; what
\* router.initialize() raises is logged only.
ValidateRaises(connect) ==
    IF connect # None /\ connect[1] \in ConnectionErrors
    THEN Some("CannotConnect")
    ELSE connect

\* Mutant of InitializeRaises: the exception of router.initialize() is not
\* caught.
InitializeRaises_Propagated(initialize) == initialize

\* The try statement around router.initialize(): whatever it raises is logged
\* as a warning and validate_input goes on.
InitializeRaises(initialize) == None

\* validate_input: what it raises, given what connect and initialize raised.
ValidateInputRaises(connect, initialize) ==
    IF ValidateRaises(connect) # None THEN ValidateRaises(connect)
    ELSE InitializeRaises(initialize)

\* The except clauses of async_step_user: errors["base"] for what
\* validate_input raised, None for the empty errors dict.
StepUserErrors(raised) ==
    IF raised = None THEN None
    ELSE IF raised = Some("CannotConnect") THEN Some("cannot_connect")
    ELSE IF raised = Some("InvalidAuth") THEN Some("invalid_auth")
    ELSE Some("unknown")

\* async_show_form
ShowForm(step_id, errors, device_name) ==
    Returned([type |-> "form", step_id |-> step_id, errors |-> errors,
              device_name |-> device_name])

\* async_create_entry
CreateEntry(title, data) ==
    Returned([type |-> "create_entry", title |-> title, data |-> data])

\* The entry id the host gives the next config entry.
EntryId(i) == "entry" \o ToString(i)

\* The options of a config entry no options flow was saved for.
NoOptions == [fade_time |-> None, color_modes |-> None]

\* The host stores the entry a flow result creates.
StoreEntry(flow_result) ==
    IF flow_result.returned[1].type = "create_entry"
    THEN Append(entries,
                [entry_id |-> EntryId(Len(entries) + 1),
                 title |-> flow_result.returned[1].title,
                 data |-> flow_result.returned[1].data,
                 options |-> NoOptions])
    ELSE entries

\* The step the flow manager calls next, after a flow result.
NextStep(flow_result) ==
    IF flow_result.returned[1].type = "create_entry" THEN Some("create_entry")
    ELSE Some(flow_result.returned[1].step_id)

\* The colour-capable devices of the router the flow connected to, in order.
ColorDevices(devs) ==
    SelectSeq(AddrOrder, LAMBDA a : a \in DOMAIN devs /\ devs[a].is_color)

\* async_step_color_mode without input: the form for the current device.
ColorModeForm(fl) ==
    ShowForm("color_mode", None, Some(fl.color_devices[fl.color_device_index + 1]))

\* The flow after async_step_user took the input and validate_input returned.
UserStepFlow(user_input, discovered, workgroup_name) ==
    [flow EXCEPT
        !.router = Some([host |-> user_input.host, port |-> user_input.port,
                         devices |-> discovered]),
        !.user_input = Some(user_input),
        !.title = workgroup_name,
        !.color_devices = ColorDevices(discovered),
        !.color_device_index = 0,
        !.color_modes = <<>>]

\* What a flow step does to the flow manager and the entries, given the new
\* fields of the flow and the result of the step.
FlowStep(new_flow, flow_result) ==
    /\ flow' = [new_flow EXCEPT !.cur_step = NextStep(flow_result)]
    /\ result' = flow_result
    /\ entries' = StoreEntry(flow_result)

\* The maximal number of config entries.
MaxEntries == 2

\* A new flow: async_step_user without input shows the user form.
async_step_user_init ==
    /\ flow.cur_step \in {None, Some("create_entry")}
    /\ Len(entries) < MaxEntries
    /\ FlowStep(NewFlow, ShowForm("user", None, None))
    /\ sent' = <<>>
    /\ last_op' = [name |-> "async_step_user", user_input |-> None,
                   connect |-> None, initialize |-> None]
    /\ UNCHANGED <<devices, GroupLightVars, written, LightVars, light_pump,
                   router_groups, added, hass_data>>

\* async_step_user with the input of the form: connect and initialize are
\* what the calls of validate_input raise, discovered is the registry of the
\* router after initialize.
async_step_user(user_input, connect, initialize, discovered, workgroup_name) ==
    /\ flow.cur_step = Some("user")
    /\ LET errors == StepUserErrors(ValidateInputRaises(connect, initialize))
           taken == UserStepFlow(user_input, discovered, workgroup_name)
       IN  IF errors # None
           THEN FlowStep(flow, ShowForm("user", errors, None))
           ELSE IF taken.color_devices # <<>>
           THEN FlowStep(taken, ColorModeForm(taken))
           ELSE FlowStep(taken, CreateEntry(taken.title,
                                            [host |-> user_input.host,
                                             port |-> user_input.port,
                                             color_modes |-> None]))
    /\ sent' = <<>>
    /\ last_op' = [name |-> "async_step_user", user_input |-> Some(user_input),
                   connect |-> connect, initialize |-> initialize]
    /\ UNCHANGED <<devices, GroupLightVars, written, LightVars, light_pump,
                   router_groups, added, hass_data>>

\* Mutant of ColorModeAnswer: the index skips a device.
ColorModeAnswer_Skipping(fl, color_mode) ==
    [fl EXCEPT
        !.color_modes =
            (fl.color_devices[fl.color_device_index + 1] :> color_mode) @@ @,
        !.color_device_index = @ + 2]

\* The answer of the colour mode form is stored under the address of the
\* current device, and the index moves to the next device.
ColorModeAnswer(fl, color_mode) ==
    LET addr_key == fl.color_devices[fl.color_device_index + 1]
    IN  [fl EXCEPT
            !.color_modes = (addr_key :> color_mode) @@ @,
            !.color_device_index = @ + 1]

\* async_step_color_mode with the input of the form: the mode is stored for
\* the current device, then the next device is asked for or the entry made.
async_step_color_mode(color_mode) ==
    /\ flow.cur_step = Some("color_mode")
    /\ LET taken == ColorModeAnswer(flow, color_mode)
       IN  IF taken.color_device_index < Len(taken.color_devices)
           THEN FlowStep(taken, ColorModeForm(taken))
           ELSE FlowStep([taken EXCEPT
                             !.user_input =
                                 Some([host |-> @[1].host, port |-> @[1].port,
                                       color_modes |-> Some(taken.color_modes)])],
                         CreateEntry(taken.title,
                                     [host |-> taken.user_input[1].host,
                                      port |-> taken.user_input[1].port,
                                      color_modes |-> Some(taken.color_modes)]))
    /\ sent' = <<>>
    /\ last_op' = [name |-> "async_step_color_mode", color_mode |-> color_mode]
    /\ UNCHANGED <<devices, GroupLightVars, written, LightVars, light_pump,
                   router_groups, added, hass_data>>

\* hass.data[DOMAIN][entry_id] = value: a new key is added last.
DataSet(data, entry_id, value) ==
    IF \E i \in 1..Len(data) : data[i][1] = entry_id
    THEN [i \in 1..Len(data) |->
             IF data[i][1] = entry_id THEN <<entry_id, value>> ELSE data[i]]
    ELSE Append(data, <<entry_id, value>>)

\* hass.data[DOMAIN].pop(entry_id)
DataPop(data, entry_id) == SelectSeq(data, LAMBDA kv : kv[1] # entry_id)

\* async_setup_entry: what it returns, given what router.async_setup returned.
SetupEntryReturns(setup_ok) == setup_ok

\* async_setup_entry of the integration: the router is stored, and replaced
\* by None when its set-up fails.
async_setup_entry(i, setup_ok) ==
    /\ i \in 1..Len(entries)
    /\ hass_data' =
           DataSet(hass_data, entries[i].entry_id,
                   IF setup_ok THEN Router(entries[i].data.host, Some("api"))
                   ELSE None)
    /\ result' = Returned(SetupEntryReturns(setup_ok))
    /\ sent' = <<>>
    /\ last_op' = [name |-> "async_setup_entry",
                   entry_id |-> entries[i].entry_id, setup_ok |-> setup_ok]
    /\ UNCHANGED <<devices, GroupLightVars, written, LightVars, light_pump,
                   router_groups, added, flow, entries>>

\* async_unload_entry: the router is dropped when every platform unloaded.
async_unload_entry(i, unload_ok) ==
    /\ i \in 1..Len(entries)
    /\ \E k \in 1..Len(hass_data) : hass_data[k][1] = entries[i].entry_id
    /\ hass_data' = IF unload_ok THEN DataPop(hass_data, entries[i].entry_id)
                    ELSE hass_data
    /\ result' = Returned(unload_ok)
    /\ sent' = <<>>
    /\ last_op' = [name |-> "async_unload_entry",
                   entry_id |-> entries[i].entry_id, unload_ok |-> unload_ok]
    /\ UNCHANGED <<devices, GroupLightVars, written, LightVars, light_pump,
                   router_groups, added, flow, entries>>

-----------------------------------------------------------------------------
(* SpecFlow: config flows and the set-up of the entries they create *)

\* The input of the user form.
UserInputs == { [host |-> h, port |-> DEFAULT_PORT] : h \in Hosts }

\* The devices a flow finds: dimmers, with or without colour control.
FlowKinds == {kind \in DeviceKinds : kind.is_load /\ ~kind.is_switch}

\* The registries a router can hold after initialize: up to two devices, each
\* a colour device or a dimmer (none too when the discovery failed).
Discovered ==
    UNION { Registries(D, FlowKinds, {0}) : D \in SUBSET {"1.2.3.4", "1.2.3.5"} }

\* What router.initialize() can do: return, or raise.
InitializeOutcomes == {None, Some("Exception")}

InitFlow ==
    /\ devices = <<>>
    /\ IdleGroupLight
    /\ sent = <<>>
    /\ last_op = [name |-> "async_setup"]
    /\ result = NoResult
    /\ NothingWritten
    /\ NoLights
    /\ HostIdle

StepUser ==
    \E user_input \in UserInputs, connect \in ConnectOutcomes,
       initialize \in InitializeOutcomes, discovered \in Discovered :
        async_step_user(user_input, connect, initialize, discovered, "Workgroup")

StepColorMode == \E mode \in COLOR_MODE_OPTIONS : async_step_color_mode(mode)

SetupEntry ==
    \E i \in 1..MaxEntries, setup_ok \in BOOLEAN : async_setup_entry(i, setup_ok)

UnloadEntry ==
    \E i \in 1..MaxEntries, unload_ok \in BOOLEAN :
        async_unload_entry(i, unload_ok)

NextFlow ==
    \/ async_step_user_init
    \/ StepUser
    \/ StepColorMode
    \/ SetupEntry
    \/ UnloadEntry

SpecFlow == InitFlow /\ [][NextFlow]_vars

-----------------------------------------------------------------------------
(* C20 *)

\* The step was async_step_user with input, and router.connect() raised a
\* ConnectionError.
ConnectFailed ==
    /\ last_op'.name = "async_step_user"
    /\ last_op'.connect # None
    /\ last_op'.connect[1] \in ConnectionErrors

\* C20: an initial connect failure is fatal to set-up. In the config flow,
\* when router.connect() raises ConnectionError no config entry is created
\* and the user form is shown again with the error cannot_connect; a config
\* entry is created only by a flow whose router connected, for that router;
\* and async_setup_entry returns False when the set-up of the router fails,
\* leaving None for the entry in hass.data.
C20_ConnectFailureFatal ==
    [][ /\ ConnectFailed =>
              /\ entries' = entries
              /\ result' = ShowForm("user", Some("cannot_connect"), None)
              /\ flow'.cur_step = Some("user")
        /\ (last_op'.name = "async_step_user" /\ last_op'.connect # None) =>
              entries' = entries
        /\ entries' # entries =>
              /\ Len(entries') = Len(entries) + 1
              /\ SubSeq(entries', 1, Len(entries)) = entries
              /\ flow'.router # None
              /\ flow'.router[1].host = entries'[Len(entries')].data.host
              /\ last_op'.name = "async_step_color_mode" \/ last_op'.connect = None
        /\ (last_op'.name = "async_setup_entry" /\ ~last_op'.setup_ok) =>
              /\ result' = Returned(FALSE)
              /\ <<last_op'.entry_id, None>> \in Range(hass_data')
      ]_vars

\* The user form came back with cannot_connect after a refused connection,
\* in a flow that follows a created entry whose set-up failed.
C20_Witness ==
    /\ last_op.name = "async_step_user"
    /\ last_op.connect = Some("ConnectionRefusedError")
    /\ result = ShowForm("user", Some("cannot_connect"), None)
    /\ Len(entries) = 1
    /\ hass_data = << <<"entry1", None>> >>

-----------------------------------------------------------------------------
(* C21 *)

\* The step was async_step_user with input, the router connected and its
\* discovery raised.
DiscoveryFailed ==
    /\ last_op'.name = "async_step_user"
    /\ last_op'.user_input # None
    /\ last_op'.connect = None
    /\ last_op'.initialize # None

\* The results that carry a flow on: the entry, or the form of a colour device.
FlowGoesOn(flow_result) ==
    \/ flow_result.returned[1].type = "create_entry"
    \/ /\ flow_result.returned[1].type = "form"
       /\ flow_result.returned[1].step_id = "color_mode"
       /\ flow_result.returned[1].errors = None

\* C21: when router.initialize() raises after a successful connect the flow
\* is not aborted: the step goes on with the devices the router holds (the
\* entry at once when it holds no colour device, else the colour mode form of
\* its first colour device), and every later step of the flow asks for the
\* next colour device or creates the entry.
C21_DiscoveryFailureGoesOn ==
    [][ /\ DiscoveryFailed =>
              /\ result'.raised = None
              /\ FlowGoesOn(result')
              /\ flow'.router # None
              /\ flow'.color_devices = ColorDevices(flow'.router[1].devices)
              /\ (flow'.color_devices = <<>>) =
                     (result'.returned[1].type = "create_entry")
        /\ last_op'.name = "async_step_color_mode" =>
              /\ FlowGoesOn(result')
              /\ (result'.returned[1].type = "create_entry") =
                     (flow'.color_device_index = Len(flow'.color_devices))
              /\ flow'.color_device_index = flow.color_device_index + 1
      ]_vars

\* The discovery failed with no device found, and the entry was created.
C21_Witness ==
    /\ last_op.name = "async_step_user"
    /\ last_op.connect = None
    /\ last_op.initialize = Some("Exception")
    /\ result.returned # None
    /\ result.returned[1].type = "create_entry"
    /\ entries # <<>>

-----------------------------------------------------------------------------
(* C22 *)

\* The number of colour devices of the flow.
NColor == Len(flow.color_devices)

\* The first n elements of a sequence, as a set.
FirstOf(seq, n) == {seq[i] : i \in 1..n}

\* While the colour mode form is up, the index is that of a colour device,
\* and the devices before it, and only they, were answered for.
ColorModeFormUp ==
    flow.cur_step = Some("color_mode") =>
        /\ flow.color_device_index \in 0..(NColor - 1)
        /\ DOMAIN flow.color_modes =
               FirstOf(flow.color_devices, flow.color_device_index)

\* An answer of the colour mode form: the mode is stored for the device the
\* form was shown for, the other answers stay, and the entry is created with
\* the N-th answer, and not before, holding the modes of all N devices.
ColorModeAnswered ==
    last_op'.name = "async_step_color_mode" =>
        LET device == flow.color_devices[flow.color_device_index + 1]
        IN  /\ flow.color_device_index \in 0..(NColor - 1)
            /\ flow'.color_devices = flow.color_devices
            /\ flow'.color_device_index = flow.color_device_index + 1
            /\ flow'.color_modes[device] = last_op'.color_mode
            /\ \A a \in DOMAIN flow.color_modes :
                   flow'.color_modes[a] = flow.color_modes[a]
            /\ (entries' # entries) = (flow'.color_device_index = NColor)
            /\ entries' = entries =>
                   result' = ShowForm("color_mode", None,
                                      Some(flow.color_devices[
                                               flow'.color_device_index + 1]))
            /\ entries' # entries =>
                   /\ entries'[Len(entries')].data.color_modes =
                          Some(flow'.color_modes)
                   /\ DOMAIN flow'.color_modes = Range(flow.color_devices)

\* The user step that connected: the colour devices are those of the router
\* in discovery order; with none the entry is created at once, without
\* colour modes; else no entry is created and the first device is asked for.
UserStepTaken ==
    (last_op'.name = "async_step_user" /\ flow'.router # None
         /\ flow'.cur_step # Some("user")) =>
        /\ flow'.color_devices = ColorDevices(flow'.router[1].devices)
        /\ flow'.color_device_index = 0
        /\ flow'.color_modes = <<>>
        /\ IF flow'.color_devices = <<>>
           THEN /\ Len(entries') = Len(entries) + 1
                /\ entries'[Len(entries')].data.color_modes = None
           ELSE /\ entries' = entries
                /\ flow'.cur_step = Some("color_mode")
                /\ result' = ShowForm("color_mode", None,
                                      Some(flow'.color_devices[1]))

\* C22: the flow asks the colour mode once for each colour-capable device, in
\* discovery order: with N >= 1 colour devices the form is shown for the
\* devices 0..N-1 in turn, no entry is created before the N-th answer, and the
\* entry's color_modes has exactly one key per colour device, holding the
\* mode chosen for it; with N = 0 the entry is created at once without
\* color_modes.
C22_OneFormPerColourDevice ==
    /\ []ColorModeFormUp
    /\ [][ColorModeAnswered /\ UserStepTaken]_vars

\* Two colour devices were asked for in turn, with different answers, and the
\* entry holds both.
C22_Witness ==
    /\ last_op.name = "async_step_color_mode"
    /\ flow.color_devices = <<"1.2.3.4", "1.2.3.5">>
    /\ flow.cur_step = Some("create_entry")
    /\ entries # <<>>
    /\ entries[Len(entries)].data.color_modes =
           Some([a \in {"1.2.3.4", "1.2.3.5"} |->
                    IF a = "1.2.3.4" THEN COLOR_MODE_XY ELSE COLOR_MODE_MIREDS])

-----------------------------------------------------------------------------
(* SpecNormalize: send_command over every short command *)

\* The characters of a command: the prefix, the terminator, and any other.
Chars == {">", "#", "V"}

\* The maximal length of a command.
MaxCommandLen == 4

AllCommands == UNION { [1..n -> Chars] : n \in 0..MaxCommandLen }

\* One router, set up, and nothing sent yet.
InitNormalize ==
    /\ devices = <<>>
    /\ IdleGroupLight
    /\ sent = <<>>
    /\ last_op = [name |-> "async_setup"]
    /\ result = NoResult
    /\ NothingWritten
    /\ NoLights
    /\ router_groups = <<>>
    /\ added = <<>>
    /\ hass_data = << <<EntryId(1), Router("10.0.0.1", Some("api"))>> >>
    /\ flow = NewFlow
    /\ entries = <<>>

SendAnyCommand ==
    \E command \in AllCommands, target_host \in {None, Some("10.0.0.1")} :
        handle_send_command(command, target_host, <<None>>)

NextNormalize == SendAnyCommand

SpecNormalize == InitNormalize /\ [][NextNormalize]_vars

-----------------------------------------------------------------------------
(* C23 *)

\* C23: the command send_command sends always begins with > and ends with #;
\* a command that has both already is sent unchanged; and normalising the
\* command sent gives the same command again.
C23_NormalisedCommand ==
    last_op.name = "handle_send_command" =>
        /\ sent # <<>>
        /\ \A i \in 1..Len(sent) :
               /\ StartsWith(sent[i].command, ">")
               /\ EndsWith(sent[i].command, "#")
               /\ (StartsWith(last_op.command, ">")
                      /\ EndsWith(last_op.command, "#"))
                     => sent[i].command = last_op.command
               /\ NormalizeCommand(sent[i].command) = sent[i].command

\* A command with the prefix and the terminator was sent as it was.
C23_Witness ==
    /\ last_op.name = "handle_send_command"
    /\ last_op.command = <<">", "V", "#">>
    /\ sent[1].command = <<">", "V", "#">>

-----------------------------------------------------------------------------
(* SpecService: send_command among set-ups and unloads of two entries *)

\* Two config entries, for any hosts, none set up yet, or the first with its
\* router stored and not yet connected (api None).
InitService ==
    /\ devices = <<>>
    /\ IdleGroupLight
    /\ sent = <<>>
    /\ last_op = [name |-> "async_setup"]
    /\ result = NoResult
    /\ NothingWritten
    /\ NoLights
    /\ router_groups = <<>>
    /\ added = <<>>
    /\ flow = NewFlow
    /\ \E h1 \in Hosts, h2 \in Hosts :
        /\ hass_data \in {<<>>, << <<EntryId(1), Router(h1, None)>> >>}
        /\ entries =
               << [entry_id |-> EntryId(1), title |-> "Workgroup",
                   data |-> [host |-> h1, port |-> DEFAULT_PORT,
                             color_modes |-> None],
                   options |-> NoOptions],
                  [entry_id |-> EntryId(2), title |-> "Workgroup",
                   data |-> [host |-> h2, port |-> DEFAULT_PORT,
                             color_modes |-> None],
                   options |-> NoOptions] >>

NextService == SetupEntry \/ UnloadEntry \/ SendCommand

SpecService == InitService /\ [][NextService]_vars

-----------------------------------------------------------------------------
(* C24 *)

\* The positions of hass.data[DOMAIN] that hold a router that is set up and,
\* when the call names a host, has that host.
Addressed(target_host) ==
    { k \in 1..Len(hass_data) :
        /\ hass_data[k][2] # None
        /\ hass_data[k][2][1].api # None
        /\ HostGiven(target_host) => hass_data[k][2][1].host = target_host[1] }

\* The calls of the last operation that went to the host h.
CallsTo(h) == { j \in 1..Len(sent) : sent[j].target = h }

\* The service ran and no send_string raised.
CommandSent == last_op.name = "handle_send_command" /\ last_op.failure = None

\* C24: after any sequence of set-ups, failed set-ups and unloads, send_command
\* sends the command exactly once to each router that is set up and, when a
\* (non-empty) host is given, has that host; an entry whose set-up failed is
\* stored as None and an unloaded entry is removed, so neither is sent to;
\* when the host matches no router nothing is sent and nothing is raised.
C24_SentToSetUpRouters ==
    /\ [](CommandSent =>
            /\ Len(sent) = Cardinality(Addressed(last_op.host))
            /\ \A h \in Hosts \cup {"10.0.0.9"} :
                   Cardinality(CallsTo(h)) =
                       Cardinality({k \in Addressed(last_op.host) :
                                        hass_data[k][2][1].host = h})
            /\ \A j \in 1..Len(sent) :
                   sent[j].command = NormalizeCommand(last_op.command)
            /\ result = NoResult)
    /\ [][ /\ (last_op'.name = "async_setup_entry" /\ ~last_op'.setup_ok) =>
                 (\A k \in 1..Len(hass_data') :
                     \/ hass_data'[k][1] # last_op'.entry_id
                     \/ hass_data'[k][2] = None)
           /\ (last_op'.name = "async_unload_entry" /\ last_op'.unload_ok) =>
                 (\A n \in 1..Len(hass_data') :
                     hass_data'[n][1] # last_op'.entry_id)
           /\ \A k1, k2 \in 1..Len(hass_data') :
                 hass_data'[k1][1] = hass_data'[k2][1] => k1 = k2
         ]_vars

\* Of two entries for the same host one failed to set up: the command for
\* that host went to the other alone.
C24_Witness ==
    /\ CommandSent
    /\ last_op.host = Some("10.0.0.1")
    /\ Len(hass_data) = 2
    /\ hass_data[1][2] = None
    /\ hass_data[2][2] = Router("10.0.0.1", Some("api"))
    /\ entries[1].data.host = "10.0.0.1"
    /\ Len(sent) = 1

-----------------------------------------------------------------------------
(* C25 *)

\* The device API a call of HelvarLight.async_turn_on has to use.
StatedDeviceApi(op) ==
    IF op.color_temp_kelvin # None THEN "devices.set_device_colour_temperature"
    ELSE IF op.xy_color # None THEN "devices.set_device_xy_color"
    ELSE "devices.set_device_brightness"

\* C25: HelvarLight.async_turn_on issues exactly one device API call, for its
\* own device: set_device_colour_temperature when a colour temperature is
\* given (an XY colour given with it is neither sent nor stored), else
\* set_device_xy_color when an XY colour is given, else set_device_brightness;
\* a colour call without a brightness carries the level "100.0".
C25_OneCallByPriority ==
    [][ last_op'.name = "HelvarLight.async_turn_on" =>
          LET a == last_op'.address
          IN  /\ Len(sent') = 1
              /\ sent'[1].target = a
              /\ sent'[1].api = StatedDeviceApi(last_op')
              /\ last_op'.color_temp_kelvin # None =>
                     /\ lights'[a].attr_xy_color = lights[a].attr_xy_color
                     /\ sent'[1].xy = None
                     /\ lights'[a].attr_color_temp_kelvin =
                            last_op'.color_temp_kelvin
              /\ (last_op'.color_temp_kelvin = None /\ last_op'.xy_color # None) =>
                     /\ sent'[1].xy = last_op'.xy_color
                     /\ sent'[1].mireds = None
              /\ (sent'[1].api # "devices.set_device_brightness"
                     /\ last_op'.brightness = None) =>
                     sent'[1].level = Some("100.0")
      ]_vars

\* A call with a colour temperature and an XY colour and no brightness: the
\* colour temperature alone was sent, at level "100.0".
C25_Witness ==
    /\ last_op.name = "HelvarLight.async_turn_on"
    /\ last_op.color_temp_kelvin # None
    /\ last_op.xy_color # None
    /\ last_op.brightness = None
    /\ Len(sent) = 1
    /\ sent[1].api = "devices.set_device_colour_temperature"
    /\ sent[1].level = Some("100.0")
    /\ lights[last_op.address].attr_xy_color = None

-----------------------------------------------------------------------------
(* SpecEntry: from the config flow to the entities of the entry it creates *)

\* dict.get(key) on the data or options of a config entry: None for a key
\* the dict does not hold.
ConfGet(conf, key) == IF key \in DOMAIN conf THEN conf[key] ELSE None

\* config_entry.options.get(CONF_FADE_TIME, DEFAULT_FADE_TIME)
EntryFadeTime(entry) ==
    IF entry.options.fade_time # None THEN entry.options.fade_time[1]
    ELSE DEFAULT_FADE_TIME

\* The light platform set up for the first config entry: the colour mode is
\* read from the key color_mode of the entry's data.
EntryPlatformSetup ==
    /\ entries # <<>>
    /\ light_async_setup_entry(ConfGet(entries[1].data, "color_mode"),
                               EntryFadeTime(entries[1]))

\* The user step of a flow whose router holds the registry of the
\* installation.
StepUserInstalled ==
    \E user_input \in UserInputs, connect \in ConnectOutcomes,
       initialize \in InitializeOutcomes :
        async_step_user(user_input, connect, initialize, devices, "Workgroup")

\* A router with up to two devices, no flow started.
InitEntry ==
    /\ devices \in Discovered
    /\ IdleGroupLight
    /\ sent = <<>>
    /\ last_op = [name |-> "async_setup"]
    /\ result = NoResult
    /\ NothingWritten
    /\ NoLights
    /\ HostIdle

NextEntry ==
    \/ async_step_user_init
    \/ StepUserInstalled
    \/ StepColorMode
    \/ EntryPlatformSetup

SpecEntry == InitEntry /\ [][NextEntry]_vars

-----------------------------------------------------------------------------
(* C26 *)

\* The ColorMode a mode of the colour mode form stands for.
ChosenColorMode(mode) ==
    IF mode = COLOR_MODE_XY THEN ColorMode_XY ELSE ColorMode_COLOR_TEMP

\* C26: once the platform is set up for an entry, the light of every colour
\* device the user chose a mode for in the flow has that mode for its active
\* colour mode and its only supported one: XY for xy, COLOR_TEMP for mireds.
C26_ChosenModeActsOnLight ==
    (added # <<>> /\ entries[1].data.color_modes # None) =>
        \A a \in DOMAIN entries[1].data.color_modes[1] :
            a \in DOMAIN lights =>
                LET chosen == ChosenColorMode(entries[1].data.color_modes[1][a])
                    mode == lights[a].configured_color_mode
                IN  /\ HelvarLight_color_mode(devices[a], mode) = chosen
                    /\ HelvarLight_supported_color_modes(devices[a], mode) = {chosen}

-----------------------------------------------------------------------------
(* SpecEquiv: the group light of group.py and the one of light.py, built for
   the same group of the same router *)

\* Every colour device of the registry configured with the mode m.
UniformModes(devs, m) == [a \in {d \in DOMAIN devs : devs[d].is_color} |-> m]

\* Any small registry and group, one colour mode for all colour devices, and
\* the group of the router is the group of the entity.
InitEquiv ==
    /\ \E D \in SUBSET Addrs : devices \in Registries(D, DeviceKinds, {0, 500})
    /\ group_devices \in DistinctSeqs(Addrs)
    /\ \E m \in ConfiguredModes : color_modes = UniformModes(devices, m)
    /\ fade_time = DEFAULT_FADE_TIME
    /\ attr_brightness = None
    /\ attr_supported_color_modes = None
    /\ attr_color_mode = None
    /\ attr_color_temp_kelvin = None
    /\ attr_xy_color = None
    /\ subscribed = NoSubscriptions
    /\ pump = <<>>
    /\ sent = <<>>
    /\ last_op = Op("new", None, None, None)
    /\ result = NoResult
    /\ NothingWritten
    /\ NoLights
    /\ router_groups = [g \in {group_id} |-> group_devices]
    /\ added = <<>>
    /\ hass_data = <<>>
    /\ flow = NewFlow
    /\ entries = <<>>

\* The platform of light.py set up with the one mode of the entity of
\* group.py, after that entity was built.
PlatformSetupSame ==
    /\ last_op.name = "__init__"
    /\ \E m \in ConfiguredModes :
           /\ color_modes = UniformModes(devices, m)
           /\ light_async_setup_entry(Some(m), fade_time)

NextEquiv == Construct \/ PlatformSetupSame

SpecEquiv == InitEquiv /\ [][NextEquiv]_vars

-----------------------------------------------------------------------------
(* C27 *)

\* The group light of light.py among the entities the platform added.
PlatformGroupLight ==
    added[1][CHOOSE i \in 1..Len(added[1]) :
                 added[1][i].unique_id = GroupLightId]

\* C27: built for the same members with the same colour mode, the group
\* light of group.py and the one of light.py have the same supported colour
\* modes, active colour mode and aggregate brightness (is_on is the same
\* expression in both), and send the same commands for every turn-on.
C27_SameGroupLight ==
    added # <<>> =>
        /\ PlatformGroupLight.attrs = Attrs
        /\ \A b \in KwBrightness, k \in KwKelvin, xy \in KwXy :
               TurnOnCalls(b, k, xy, PlatformGroupLight.attrs.brightness,
                           fade_time)
                   = TurnOnCalls(b, k, xy, attr_brightness, fade_time)

-----------------------------------------------------------------------------
(* C28 *)

\* The colour temperature and XY colour the two entities store.
StoredColours ==
    <<attr_color_temp_kelvin, attr_xy_color,
      [a \in DOMAIN lights |->
          <<lights[a].attr_color_temp_kelvin, lights[a].attr_xy_color>>]>>

\* C28: when the router API call of async_turn_on with a colour temperature
\* or an XY colour raises, for a device light or a group light, the stored
\* colour temperature and XY colour of the entity are those from before the
\* call.
C28_FailedCommandStoresNothing ==
    [][ (/\ last_op'.name \in {"async_turn_on", "HelvarLight.async_turn_on"}
         /\ last_op'.failure # None
         /\ last_op'.color_temp_kelvin # None \/ last_op'.xy_color # None)
            => StoredColours' = StoredColours ]_vars

-----------------------------------------------------------------------------
(* C29 *)

\* C29: a group light that exists has a defined, consistent aggregate, also
\* when no member address resolves to a device of the registry: its set of
\* supported colour modes is defined and not empty, its active colour mode
\* is defined, and whenever is_on is false its aggregate brightness is 0.
C29_DefinedAggregate ==
    Constructed =>
        /\ attr_supported_color_modes # None
        /\ attr_supported_color_modes # Some({})
        /\ attr_color_mode # None
        /\ ~is_on(group_devices, devices) => attr_brightness = Some(0)

-----------------------------------------------------------------------------
(* The options flow of config_flow.py *)

\* hass.data.get(DOMAIN, {}).get(entry_id): None for an entry that is not
\* set up.
EntryRouter(data, entry_id) ==
    IF \E k \in 1..Len(data) : data[k][1] = entry_id
    THEN data[CHOOSE k \in 1..Len(data) : data[k][1] = entry_id][2]
    ELSE None

\* The colour devices the options flow finds: those of the live router of
\* the entry, none when the entry has no router.
OptionsColorDevices(entry) ==
    IF EntryRouter(hass_data, entry.entry_id) # None THEN ColorDevices(devices)
    ELSE <<>>

\* current_color_modes: the colour modes of the options, else those of the
\* data, else none.
CurrentColorModes(entry) ==
    IF entry.options.color_modes # None THEN entry.options.color_modes[1]
    ELSE IF entry.data.color_modes # None THEN entry.data.color_modes[1]
    ELSE <<>>

\* The options a submission of the form is saved as: the fade time in
\* centiseconds, and the colour modes of the fields of the colour devices
\* found, when there are any.
SubmittedOptions(entry, user_input) ==
    LET found == { a \in Range(OptionsColorDevices(entry)) :
                     a \in DOMAIN user_input.color_mode }
        new_color_modes == [a \in found |-> user_input.color_mode[a]]
    IN  [fade_time |-> Some(user_input.fade_tenths * 10),
         color_modes |-> IF found # {} THEN Some(new_color_modes) ELSE None]

\* The form of the options: the fade time and one selector per colour
\* device found, each with the current mode of its device for its default.
OptionsForm(entry) ==
    Returned([type |-> "form", step_id |-> "init", errors |-> None,
              fade_time |-> EntryFadeTime(entry),
              color_mode |->
                  [a \in Range(OptionsColorDevices(entry)) |->
                      IF a \in DOMAIN CurrentColorModes(entry)
                      THEN CurrentColorModes(entry)[a]
                      ELSE COLOR_MODE_MIREDS]])

\* OptionsFlowHandler.async_step_init without input: the form is shown.
async_step_init_show(i) ==
    /\ i \in 1..Len(entries)
    /\ result' = OptionsForm(entries[i])
    /\ sent' = <<>>
    /\ last_op' = [name |-> "async_step_init", entry |-> i, user_input |-> None]
    /\ UNCHANGED <<devices, GroupLightVars, written, LightVars, light_pump,
                   HostVars>>

\* OptionsFlowHandler.async_step_init with the input of the form: the options
\* made from the input replace the options of the entry.
async_step_init(i, user_input) ==
    /\ i \in 1..Len(entries)
    /\ DOMAIN user_input.color_mode = Range(OptionsColorDevices(entries[i]))
    /\ entries' = [entries EXCEPT
                      ![i].options = SubmittedOptions(entries[i], user_input)]
    /\ result' = CreateEntry("", SubmittedOptions(entries[i], user_input))
    /\ sent' = <<>>
    /\ last_op' = [name |-> "async_step_init", entry |-> i,
                   user_input |-> Some(user_input)]
    /\ UNCHANGED <<devices, GroupLightVars, written, LightVars, light_pump,
                   router_groups, added, hass_data, flow>>

-----------------------------------------------------------------------------
(* SpecOptions: the options of one entry saved while its router comes and
   goes *)

\* The inputs of the options form: a fade time in tenths of a second and a
\* mode for each of some devices.
OptionsInputs ==
    { [fade_tenths |-> f, color_mode |-> cm] :
        f \in {10, 25},
        cm \in UNION { [D -> COLOR_MODE_OPTIONS] : D \in SUBSET Addrs } }

\* The colour modes a config flow can have stored for a registry: none when
\* it found no colour device, else one for each it found.
FlowColorModes(devs) ==
    {None} \cup { Some(cm) : cm \in [Range(ColorDevices(devs)) -> COLOR_MODE_OPTIONS] }

\* One entry as its config flow left it, not set up.
InitOptions ==
    /\ devices \in Discovered
    /\ IdleGroupLight
    /\ sent = <<>>
    /\ last_op = [name |-> "async_setup"]
    /\ result = NoResult
    /\ NothingWritten
    /\ NoLights
    /\ router_groups = <<>>
    /\ added = <<>>
    /\ hass_data = <<>>
    /\ flow = NewFlow
    /\ \E cm \in FlowColorModes(devices) :
           entries = << [entry_id |-> EntryId(1), title |-> "Workgroup",
                         data |-> [host |-> "10.0.0.1", port |-> DEFAULT_PORT,
                                   color_modes |-> cm],
                         options |-> NoOptions] >>

OptionsShown == \E i \in 1..MaxEntries : async_step_init_show(i)

OptionsSubmitted ==
    \E i \in 1..MaxEntries, user_input \in OptionsInputs :
        async_step_init(i, user_input)

NextOptions == SetupEntry \/ UnloadEntry \/ OptionsShown \/ OptionsSubmitted

SpecOptions == InitOptions /\ [][NextOptions]_vars

-----------------------------------------------------------------------------
(* C30 *)

\* The colour mode resolved for a device: from the options, else the data.
ResolvedMode(entry, a) ==
    IF a \in DOMAIN CurrentColorModes(entry)
    THEN Some(CurrentColorModes(entry)[a]) ELSE None

\* C30: saving the options never loses a colour mode: after a submission
\* the mode resolved for each colour device is the one the submission
\* selected for it, and the one resolved before when the submission carried
\* no field for the device (the router's devices being unavailable).
C30_OptionsKeepModes ==
    [][ (last_op'.name = "async_step_init" /\ last_op'.user_input # None) =>
          LET i == last_op'.entry
              selected == SubmittedOptions(entries[i], last_op'.user_input[1])
          IN  \A a \in Range(ColorDevices(devices)) :
                  ResolvedMode(entries'[i], a) =
                      IF selected.color_modes # None
                           /\ a \in DOMAIN selected.color_modes[1]
                      THEN Some(selected.color_modes[1][a])
                      ELSE ResolvedMode(entries[i], a)
      ]_vars

=============================================================================
